---- MODULE Spec2Model ----
(***************************************************************************)
(* A model of apns2.client.APNsClient: the dispatch of single and batch    *)
(* notifications over one shared connection (asend_notification,           *)
(* asend_notification_batch), the blocking bridge (_run_async and its      *)
(* three strategies) and the response classifier (_process_response); and   *)
(* of apns2.credentials.TokenCredentials: the cached signed token behind   *)
(* get_authorization_header.                                               *)
(***************************************************************************)
EXTENDS Integers, Sequences, FiniteSets, TLC

\* The longest batch a call dispatches.
MaxBatch == 2

\* Device tokens of the notifications (Notification.token).
Tokens == {"t1", "t2"}

\* The clock of the credentials runs from 0 to MaxTime; a token lifetime is
\* between 1 and MaxLifetime; MaxCalls authorization headers are asked for.
MaxTime == 3
MaxLifetime == 2
MaxCalls == 3

----------------------------------------------------------------------------
(* Python values.  A str is [str |-> s], a 2-tuple of str is               *)
(* [tuple |-> <<a, b>>]; a JSON value is a string, a number, null, a list  *)
(* or a dict (a function from its keys to JSON values).                    *)

PyS(s) == [str |-> s]
PyTuple(a, b) == [tuple |-> <<a, b>>]

JsonStr(s) == [jstr |-> s]
JsonNum(n) == [jnum |-> n]
JsonNull == [jnull |-> TRUE]
JsonList == [jlist |-> <<>>]
JsonDict(d) == [jdict |-> d]

IsDict(v) == "jdict" \in DOMAIN v

Digit(d) ==
    CASE d = 0 -> "0" [] d = 1 -> "1" [] d = 2 -> "2" [] d = 3 -> "3"
      [] d = 4 -> "4" [] d = 5 -> "5" [] d = 6 -> "6" [] d = 7 -> "7"
      [] d = 8 -> "8" [] d = 9 -> "9"

RECURSIVE ToDecimal(_)
ToDecimal(n) ==
    IF n < 0 THEN "-" \o ToDecimal(0 - n)
    ELSE IF n < 10 THEN Digit(n)
    ELSE ToDecimal(n \div 10) \o Digit(n % 10)

\* str(v) of a JSON scalar as json() decodes it (str, int, None).
PyStr(v) ==
    IF "jstr" \in DOMAIN v THEN v.jstr
    ELSE IF "jnum" \in DOMAIN v THEN ToDecimal(v.jnum)
    ELSE IF "jnull" \in DOMAIN v THEN "None"
    ELSE "[]"

\* data.get(key, default) on a decoded dict; the default is a Python str.
DictGet(data, key, default) ==
    IF key \in DOMAIN data.jdict THEN data.jdict[key] ELSE JsonStr(default)

\* What a coroutine or a function call ends with.
Returned(v) == [returned |-> v]
Raised(e) == [raised |-> e]
Pending == [pending |-> TRUE]

IsReturned(r) == "returned" \in DOMAIN r
IsRaised(r) == "raised" \in DOMAIN r

\* An exception object: its class and its message.
Exc(cls, msg) == [exc |-> cls, msg |-> msg]
IsExc(r) == "exc" \in DOMAIN r

\* The classes that derive from Exception; asyncio.CancelledError derives
\* from BaseException only.
ExceptionClasses == {"ConnectError", "ReadTimeout", "AttributeError",
                     "RuntimeError", "OSError", "TypeError", "InvalidKeyError"}

\* isinstance(r, Exception)
IsExceptionInstance(r) == IsExc(r) /\ r.exc \in ExceptionClasses

\* Reading .status_code of an object that has none.
NoStatusCode == Exc("AttributeError", "object has no attribute 'status_code'")

----------------------------------------------------------------------------
(* Responses of the connection.  body is what response.json() does: it     *)
(* raises, or it returns a decoded JSON value.                             *)

BodyRaises == [raises |-> TRUE]
BodyJson(v) == [json |-> v]

Response(status, body) == [status_code |-> status, body |-> body]

IsResponse(r) == "status_code" \in DOMAIN r

\* Status codes of the gateway's responses.
StatusCodes == {200, 400, 403, 404, 405, 410, 413, 429, 500, 503}

\* Values of a "reason" and of a "timestamp" field of a decoded body.
ReasonValues == {JsonStr("BadDeviceToken"), JsonStr("Unregistered"), JsonNull}
TimestampValues == {JsonStr("1234567890"), JsonNum(1234567890)}

\* The decoded key/value documents: each field is present or absent.
Dicts ==
    { JsonDict([k \in ks |-> IF k = "reason" THEN r ELSE t]) :
        ks \in SUBSET {"reason", "timestamp"},
        r \in ReasonValues, t \in TimestampValues }

\* Bodies: json() raises (empty or malformed), or decodes to a value that is
\* not a key/value document, or decodes to a key/value document.
Bodies ==
    {BodyRaises} \cup {BodyJson(v) : v \in {JsonList, JsonNull, JsonStr("gone")}}
        \cup {BodyJson(d) : d \in Dicts}

AllResponses == {Response(s, b) : s \in StatusCodes, b \in Bodies}

----------------------------------------------------------------------------
(* APNsClient._process_response                                            *)

\* The 200 branch read after the body, as a parser-first classifier would.
process_response_parse_first(response) ==
    IF ~IsResponse(response) THEN Raised(NoStatusCode)
    ELSE IF response.body = BodyRaises \/ ~IsDict(response.body.json)
        THEN Returned(PyS("InternalException"))
    ELSE IF response.status_code = 200 THEN Returned(PyS("Success"))
    ELSE IF response.status_code = 410
        THEN Returned(PyTuple(PyStr(DictGet(response.body.json, "reason", "Unregistered")),
                              PyStr(DictGet(response.body.json, "timestamp", ""))))
    ELSE Returned(PyS(PyStr(DictGet(response.body.json, "reason", "InternalException"))))

\* The 410 branch without its defaults and without str().
process_response_410_raw(response) ==
    IF ~IsResponse(response) THEN Raised(NoStatusCode)
    ELSE IF response.status_code = 200 THEN Returned(PyS("Success"))
    ELSE IF response.body = BodyRaises \/ ~IsDict(response.body.json)
        THEN Returned(PyS("InternalException"))
    ELSE IF response.status_code = 410
        THEN IF {"reason", "timestamp"} \subseteq DOMAIN response.body.json.jdict
               THEN Returned(PyTuple(PyStr(response.body.json.jdict["reason"]),
                                     PyStr(response.body.json.jdict["timestamp"])))
               ELSE Returned(PyS("InternalException"))
    ELSE Returned(PyS(PyStr(DictGet(response.body.json, "reason", "InternalException"))))

\* Server errors (5xx) reported as InternalException whatever the body says.
process_response_5xx_internal(response) ==
    IF ~IsResponse(response) THEN Raised(NoStatusCode)
    ELSE IF response.status_code = 200 THEN Returned(PyS("Success"))
    ELSE IF response.body = BodyRaises \/ ~IsDict(response.body.json)
        THEN Returned(PyS("InternalException"))
    ELSE IF response.status_code = 410
        THEN Returned(PyTuple(PyStr(DictGet(response.body.json, "reason", "Unregistered")),
                              PyStr(DictGet(response.body.json, "timestamp", ""))))
    ELSE IF response.status_code >= 500 THEN Returned(PyS("InternalException"))
    ELSE Returned(PyS(PyStr(DictGet(response.body.json, "reason", "InternalException"))))

\* An except clause for the parser's error alone: data.get on a value that is
\* no dict raises out of the classifier.
process_response_narrow_except(response) ==
    IF ~IsResponse(response) THEN Raised(NoStatusCode)
    ELSE IF response.status_code = 200 THEN Returned(PyS("Success"))
    ELSE IF response.body = BodyRaises THEN Returned(PyS("InternalException"))
    ELSE IF ~IsDict(response.body.json)
        THEN Raised(Exc("AttributeError", "object has no attribute 'get'"))
    ELSE IF response.status_code = 410
        THEN Returned(PyTuple(PyStr(DictGet(response.body.json, "reason", "Unregistered")),
                              PyStr(DictGet(response.body.json, "timestamp", ""))))
    ELSE Returned(PyS(PyStr(DictGet(response.body.json, "reason", "InternalException"))))

\* client.py 251-264.  Reading status_code of an object that is no response
\* raises AttributeError, outside the try; inside the try, json() raising or
\* data.get on a value that is no dict is caught and gives InternalException.
_process_response(response) ==
    IF ~IsResponse(response) THEN Raised(NoStatusCode)
    ELSE IF response.status_code = 200 THEN Returned(PyS("Success"))
    ELSE IF response.body = BodyRaises \/ ~IsDict(response.body.json)
        THEN Returned(PyS("InternalException"))
    ELSE IF response.status_code = 410
        THEN Returned(PyTuple(PyStr(DictGet(response.body.json, "reason", "Unregistered")),
                              PyStr(DictGet(response.body.json, "timestamp", ""))))
    ELSE Returned(PyS(PyStr(DictGet(response.body.json, "reason", "InternalException"))))

----------------------------------------------------------------------------
(* The client, one call at a time.                                         *)

VARIABLES
    is_celery_worker,  \* self._is_celery_worker, fixed at construction
    call,              \* the call in progress: its kind, its notifications,
                       \* whether its thread is inside a running event loop
    pc,                \* where the caller is: idle, awaiting the coroutine
                       \* itself, or in one of the strategies of _run_async
    coro,              \* where the dispatch coroutine is
    tasks,             \* per notification: created, inflight or done
    responses,         \* per notification: what its stream ended with
    completed,         \* the streams in the order they ended
    requests,          \* the tokens of the requests posted on
                       \* self._connection during the call, in order
    starts,            \* how many times the call started its coroutine
    coro_result,       \* what the coroutine returned or raised
    result,            \* what the call returned or raised to its caller
    strategies,        \* the strategies _run_async entered for the call, in
                       \* order
    direct_end,        \* what asyncio.run ended with, if the call used it
    thread_end,        \* what _run_in_separate_thread ended with, likewise
    loops,             \* the event loops the call's strategies made, in
                       \* order: who made each, in which thread, closed or not
    coro_loop,         \* the event loop the coroutine runs on
    thread,            \* where the worker thread of the call is
    binding,           \* the current event loop of the calling thread
    clf_response,      \* the classifier on its own: its argument
    clf_result,        \* and its result
    now,               \* time.time(), in whole seconds
    token_lifetime,    \* TokenCredentials.__token_lifetime
    jwt_token,         \* TokenCredentials.__jwt_token
    cred,              \* per thread: where its get_authorization_header
                       \* call is, and the call's local variables
    headers,           \* the calls that returned, in the order they returned
    client,            \* what __init__ fixed: _server, _port, the credentials
    request,           \* the request _send_single_notification posts: its
                       \* arguments, its url and its headers
    connections        \* how many connections create_connection has made,
                       \* and the ones a request was posted on

dispatch_vars ==
    <<is_celery_worker, call, pc, coro, tasks, responses, completed, requests,
      starts, coro_result, result, strategies, direct_end, thread_end,
      loops, coro_loop, thread, binding>>
loop_vars == <<loops, coro_loop, thread, binding>>
clf_vars == <<clf_response, clf_result>>
cred_vars == <<now, token_lifetime, jwt_token, cred, headers>>
req_vars == <<client, request, connections>>
vars == <<dispatch_vars, clf_vars, cred_vars, req_vars>>

SingleKinds == {"asend_notification", "send_notification"}
BatchKinds == {"asend_notification_batch", "send_notification_batch"}
AsyncKinds == {"asend_notification", "asend_notification_batch"}
BlockingKinds == {"send_notification", "send_notification_batch"}

NoCall == [kind |-> "none", notifications |-> <<>>, running_loop |-> FALSE]

\* The batches a call is given: sequences of tokens, duplicates included.
Batches == UNION {[1..n -> Tokens] : n \in 0..MaxBatch}

\* What one stream ends with: a response, or connection.post raising.
StreamResponses ==
    { Response(200, BodyRaises),
      Response(400, BodyJson(JsonDict([k \in {"reason"} |-> JsonStr("BadDeviceToken")]))),
      Response(410, BodyJson(JsonDict([k \in {"reason", "timestamp"} |->
          IF k = "reason" THEN JsonStr("Unregistered") ELSE JsonNum(1234567890)]))),
      Response(503, BodyRaises) }
StreamErrors ==
    { Exc("ConnectError", "Connection error"), Exc("ReadTimeout", ""),
      Exc("CancelledError", "") }
Terminations == StreamResponses \cup StreamErrors

\* What building a request raises before anything is posted: json.dumps of a
\* payload it cannot serialize, the signer of the credentials refusing its key.
BuildErrors ==
    { Exc("TypeError", "Object of type set is not JSON serializable"),
      Exc("InvalidKeyError", "") }

\* A dict of results: a function from the tokens it holds.
EmptyDict == [t \in {} |-> PyS("")]
PyDict(d) == [dict |-> d]
DictSet(d, k, v) == [x \in (DOMAIN d) \cup {k} |-> IF x = k THEN v ELSE d[x]]

Range(f) == {f[i] : i \in DOMAIN f}

----------------------------------------------------------------------------
(* APNsClient.asend_notification_batch, after its streams have ended       *)

\* gather without return_exceptions: the first stream that did not end with
\* a response makes the await raise.
gather_propagating(ended) ==
    IF \E i \in DOMAIN ended : ~IsResponse(ended[i])
        THEN Raised(ended[CHOOSE i \in DOMAIN ended : /\ ~IsResponse(ended[i])
                            /\ \A j \in 1..(i - 1) : IsResponse(ended[j])])
        ELSE Returned(ended)

\* client.py 167: asyncio.gather(*tasks, return_exceptions=True) gives one
\* entry per task, in the order of the tasks: the response, or the exception
\* instance the task raised, or a CancelledError instance for a cancelled task.
gather(ended) == Returned(ended)

\* The loop storing nothing for a stream that raised.
RECURSIVE process_results_skipping(_, _, _, _)
process_results_skipping(notifications_list, gathered, i, results) ==
    IF i > Len(notifications_list) THEN Returned(PyDict(results))
    ELSE IF IsExceptionInstance(gathered[i])
        THEN process_results_skipping(notifications_list, gathered, i + 1, results)
    ELSE LET r == _process_response(gathered[i]) IN
         IF IsRaised(r) THEN r
         ELSE process_results_skipping(notifications_list, gathered, i + 1,
                  DictSet(results, notifications_list[i], r.returned))

\* The loop taking the streams in the order they ended.
RECURSIVE process_results_as_completed(_, _, _, _)
process_results_as_completed(notifications_list, gathered, i, results) ==
    IF i > Len(notifications_list) THEN Returned(PyDict(results))
    ELSE LET k == completed[i] IN
         IF IsExceptionInstance(gathered[k])
         THEN process_results_as_completed(notifications_list, gathered, i + 1,
                  DictSet(results, notifications_list[k], PyS("InternalException")))
         ELSE LET r == _process_response(gathered[k]) IN
              IF IsRaised(r) THEN r
              ELSE process_results_as_completed(notifications_list, gathered, i + 1,
                       DictSet(results, notifications_list[k], r.returned))

\* The loop isolating the errors of the connection only: any other
\* Exception instance is raised.
RECURSIVE process_results_transport_only(_, _, _, _)
process_results_transport_only(notifications_list, gathered, i, results) ==
    IF i > Len(notifications_list) THEN Returned(PyDict(results))
    ELSE IF IsExceptionInstance(gathered[i])
        THEN IF gathered[i].exc \in {"ConnectError", "ReadTimeout"}
               THEN process_results_transport_only(notifications_list, gathered, i + 1,
                        DictSet(results, notifications_list[i], PyS("InternalException")))
               ELSE Raised(gathered[i])
    ELSE LET r == _process_response(gathered[i]) IN
         IF IsRaised(r) THEN r
         ELSE process_results_transport_only(notifications_list, gathered, i + 1,
                  DictSet(results, notifications_list[i], r.returned))

\* client.py 170-184: zip(notifications_list, responses) from entry i on.  An
\* entry that is an Exception instance stores "InternalException"; any other
\* entry goes to _process_response, whose error ends the loop and the call.
RECURSIVE process_results(_, _, _, _)
process_results(notifications_list, gathered, i, results) ==
    IF i > Len(notifications_list) THEN Returned(PyDict(results))
    ELSE IF IsExceptionInstance(gathered[i])
        THEN process_results(notifications_list, gathered, i + 1,
                 DictSet(results, notifications_list[i], PyS("InternalException")))
    ELSE LET r == _process_response(gathered[i]) IN
         IF IsRaised(r) THEN r
         ELSE process_results(notifications_list, gathered, i + 1,
                  DictSet(results, notifications_list[i], r.returned))

\* client.py 167-184: what the batch coroutine ends with once every task ended.
asend_notification_batch_end(notifications_list, ended) ==
    LET g == gather(ended) IN
    IF IsRaised(g) THEN g
    ELSE process_results(notifications_list, g.returned, 1, EmptyDict)

\* client.py 134-137: what asend_notification ends with: the classified
\* response, or the error of the request, which nothing catches.
asend_notification_end(ended) ==
    IF IsResponse(ended) THEN _process_response(ended) ELSE Raised(ended)

\* A connection that drops the request of a token it has already posted.
connection_post_once_per_token(posted, token) ==
    IF token \in Range(posted) THEN posted ELSE Append(posted, token)

\* client.py 242-248: self._connection.post for the notification's token.
connection_post(posted, token) == Append(posted, token)

\* A client that makes a connection for each request and posts on it.
post_on_new_connection(made, connection) ==
    [created |-> made.created + 1, used |-> made.used \cup {made.created + 1}]

\* client.py 246: the request is posted on self._connection, the connection
\* the client holds; none is made.
post_on(made, connection) ==
    [made EXCEPT !.used = @ \cup {connection}]

----------------------------------------------------------------------------
(* APNsClient._run_async and its strategies                                *)

\* str.lower() of one character.
LowerChar(c) ==
    CASE c = "A" -> "a" [] c = "B" -> "b" [] c = "C" -> "c" [] c = "D" -> "d"
      [] c = "E" -> "e" [] c = "F" -> "f" [] c = "G" -> "g" [] c = "H" -> "h"
      [] c = "I" -> "i" [] c = "J" -> "j" [] c = "K" -> "k" [] c = "L" -> "l"
      [] c = "M" -> "m" [] c = "N" -> "n" [] c = "O" -> "o" [] c = "P" -> "p"
      [] c = "Q" -> "q" [] c = "R" -> "r" [] c = "S" -> "s" [] c = "T" -> "t"
      [] c = "U" -> "u" [] c = "V" -> "v" [] c = "W" -> "w" [] c = "X" -> "x"
      [] c = "Y" -> "y" [] c = "Z" -> "z" [] OTHER -> c

\* phrase in text.lower(): at some place of text, every character lowered
\* is the character of phrase.
InLowered(phrase, text) ==
    \E i \in 1..(Len(text) - Len(phrase) + 1) :
        \A k \in 1..Len(phrase) :
            LowerChar(SubSeq(text, i + k - 1, i + k - 1)) = SubSeq(phrase, k, k)

\* client.py 293-302: the phrases looked for in the lowered message of a
\* RuntimeError out of asyncio.run.
LifecyclePhrases ==
    {"event loop is closed", "event loop is running",
     "cannot be called from a running event loop",
     "there is no current event loop"}

\* What asyncio.run raises by itself, before the coroutine runs.
RunFaults ==
    { Exc("RuntimeError", "Event loop is closed"),
      Exc("RuntimeError", "runtime failure"),
      Exc("OSError", "") }

\* client.py 353-354, 348-349: the errors _run_in_separate_thread raises by
\* itself.
NoResult == Exc("RuntimeError", "Failed to get result from async operation")
TimedOut == Exc("RuntimeError", "Async operation timed out after 5 minutes")

\* What asyncio.run, and run_until_complete of a new loop, raise in a thread
\* whose event loop is running.
RunInRunningLoop ==
    Exc("RuntimeError", "asyncio.run() cannot be called from a running event loop")
LoopAlreadyRunning ==
    Exc("RuntimeError", "Cannot run the event loop while another loop is running")

PyNone == [none |-> TRUE]

\* The flag of the worker left unread.
first_strategy_loop_only(celery, running_loop) ==
    IF running_loop THEN "separate_thread" ELSE "asyncio_run"

\* client.py 276-291: the strategy a call tries first.
first_strategy(celery, running_loop) ==
    IF celery THEN "separate_thread"
    ELSE IF running_loop THEN "separate_thread"
    ELSE "asyncio_run"

\* Every Exception out of asyncio.run answered with a separate thread.
fallback_thread_only(e) ==
    IF e.exc \in ExceptionClasses THEN "separate_thread" ELSE "propagate"

\* client.py 292-311: what follows an error e out of asyncio.run: a
\* RuntimeError about the event loop goes to the manual loop, any other
\* Exception to a separate thread, and anything else reaches the caller.
fallback(e) ==
    IF e.exc = "RuntimeError" /\ \E phrase \in LifecyclePhrases : InLowered(phrase, e.msg)
        THEN "manual_loop"
    ELSE IF e.exc \in ExceptionClasses THEN "separate_thread"
    ELSE "propagate"

\* The join reading an empty result as no result (if not result).
separate_thread_end_falsy(ended) ==
    IF IsReturned(ended)
        THEN IF ended.returned \in {PyNone, PyDict(EmptyDict)} THEN Raised(NoResult) ELSE ended
    ELSE IF ended.raised.exc \in ExceptionClasses THEN ended
    ELSE Raised(NoResult)

\* client.py 322-355, the thread having ended within the join: an Exception
\* of the coroutine is captured and raised again; a result that is not None is
\* returned; with neither (the coroutine ended with a BaseException that
\* except Exception does not capture) the call raises RuntimeError.
separate_thread_end(ended) ==
    IF IsReturned(ended)
        THEN IF ended.returned = PyNone THEN Raised(NoResult) ELSE ended
    ELSE IF ended.raised.exc \in ExceptionClasses THEN ended
    ELSE Raised(NoResult)

\* An event loop of the call, by its place in loops.
LoopId(i) == [loop |-> i]

\* The running event loop of a caller that awaits.
RunningLoop == [running |-> TRUE]

\* What the calling thread had as its current event loop when the call began.
BoundAtCall == [bound_at_call |-> TRUE]

\* The thread a strategy makes its event loop in.
ThreadOf(strategy) == IF strategy = "separate_thread" THEN "worker" ELSE "caller"

\* asyncio.new_event_loop() in a strategy (client.py 326, 363; asyncio.run
\* makes its own likewise).
new_event_loop(made, strategy) ==
    Append(made, [by |-> strategy, thread |-> ThreadOf(strategy), closed |-> FALSE])

\* A strategy that runs the operation on the loop its thread has bound, when
\* it has one, and on the new loop otherwise.
operation_loop_bound(made, bound) ==
    IF bound # PyNone THEN bound ELSE LoopId(Len(made))

\* client.py 291, 330, 366: the operation runs on the loop the strategy has
\* just made, the last of made.
operation_loop(made, bound) == LoopId(Len(made))

\* A join that ends the thread it has given up waiting for.
join_timeout_ends_thread(state) == "ended"

\* client.py 346-349: thread.join(timeout=300) returns with the thread alive
\* and the call raises; nothing is done to the thread.
join_timeout(state) == state

\* loop.close()
close_loop(made, i) == [made EXCEPT ![i].closed = TRUE]

\* A worker thread that closes its loop after the operation returned only.
run_in_thread_close_on_return(made, i, ended) ==
    IF IsReturned(ended) THEN close_loop(made, i) ELSE made

\* client.py 331-340: the finally of run_in_thread closes the loop of the
\* thread whatever the operation ended with.
run_in_thread_finally(made, i, ended) == close_loop(made, i)

\* A manual strategy that cleans up after the operation returned only.
manual_loop_close_on_return(made, i, bound, ended) ==
    IF IsReturned(ended)
        THEN [loops |-> close_loop(made, i), binding |-> PyNone]
        ELSE [loops |-> made, binding |-> bound]

\* client.py 367-376: the finally of _run_with_manual_loop closes the loop it
\* made and sets the current event loop of the thread to None.
manual_loop_finally(made, i, bound, ended) ==
    [loops |-> close_loop(made, i), binding |-> PyNone]

----------------------------------------------------------------------------
(* The steps of a call                                                     *)

Finished == result # Pending

\* The next task gather starts waits for its sibling to have ended.
TaskRunnable_sequential(i) ==
    /\ coro = "gather"
    /\ i \in DOMAIN tasks
    /\ tasks[i] = "created"
    /\ \A j \in 1..(i - 1) : tasks[j] = "done"

\* client.py 157-167: gather schedules one task per coroutine, in the order of
\* the list; a task runs when the loop reaches it, whatever its siblings wait
\* for.
TaskRunnable(i) ==
    /\ coro = "gather"
    /\ i \in DOMAIN tasks
    /\ tasks[i] = "created"
    /\ \A j \in 1..(i - 1) : tasks[j] # "created"

\* The loop of the call that a strategy made.
LoopOf(strategy) == CHOOSE i \in DOMAIN loops : loops[i].by = strategy

\* No bridged call is in progress.
NoLoops ==
    /\ loops = <<>>
    /\ coro_loop = PyNone
    /\ thread = "none"
    /\ binding = BoundAtCall

\* client.py 290-291, 326-330, 363-366: a strategy makes an event loop in its
\* thread, makes it the current loop of that thread and runs the operation on
\* it; the worker thread does so in its own thread and leaves the calling
\* thread's current loop alone.
RunOperationOn(strategy, made, bound) ==
    /\ loops' = new_event_loop(made, strategy)
    /\ coro_loop' = operation_loop(new_event_loop(made, strategy), bound)
    /\ thread' = IF strategy = "separate_thread" THEN "running" ELSE thread
    /\ binding' = IF strategy = "separate_thread" THEN bound ELSE LoopId(Len(made) + 1)

\* The coroutine of the call runs to its first suspension.
\* client.py 148-167 (batch): an empty list returns {} at once; otherwise one
\* task per notification is created and gather awaited.
\* client.py 133-136, 186-248 (single): the request is built and posted.
StartCoroutine(kind, notifications) ==
    /\ starts' = starts + 1
    /\ responses' = [i \in 1..Len(notifications) |-> Pending]
    /\ completed' = <<>>
    /\ IF kind \in BatchKinds
         THEN IF notifications = <<>>
                THEN /\ coro' = "done"
                     /\ coro_result' = Returned(PyDict(EmptyDict))
                     /\ tasks' = <<>>
                     /\ requests' = requests
                     /\ connections' = connections
                ELSE /\ coro' = "gather"
                     /\ coro_result' = Pending
                     /\ tasks' = [i \in 1..Len(notifications) |-> "created"]
                     /\ requests' = requests
                     /\ connections' = connections
         ELSE /\ coro' = "post"
              /\ coro_result' = Pending
              /\ tasks' = <<"inflight">>
              /\ requests' = connection_post(requests, notifications[1])
              /\ connections' = post_on(connections, client.connection)

\* await client.asend_notification(...) / asend_notification_batch(...)
AsyncCall(kind, notifications) ==
    /\ pc = "idle"
    /\ kind \in AsyncKinds
    /\ kind \in SingleKinds => Len(notifications) = 1
    /\ call' = [kind |-> kind, notifications |-> notifications, running_loop |-> TRUE]
    /\ pc' = "await"
    /\ result' = Pending
    /\ strategies' = <<>>
    /\ direct_end' = Pending
    /\ thread_end' = Pending
    /\ coro_loop' = RunningLoop
    /\ UNCHANGED <<loops, thread, binding>>
    /\ StartCoroutine(kind, notifications)
    /\ UNCHANGED <<is_celery_worker, clf_vars, cred_vars, client, request>>

\* client.py 86-121, 266-311: send_notification / send_notification_batch
\* enter _run_async, which picks a strategy and starts the coroutine in it;
\* fault is what asyncio.run raises by itself, if it does.
BlockingCall(kind, notifications, running_loop, fault) ==
    /\ pc = "idle"
    /\ kind \in BlockingKinds
    /\ kind \in SingleKinds => Len(notifications) = 1
    /\ first_strategy(is_celery_worker, running_loop) # "asyncio_run" => fault = PyNone
    /\ call' = [kind |-> kind, notifications |-> notifications,
                running_loop |-> running_loop]
    /\ IF first_strategy(is_celery_worker, running_loop) = "asyncio_run" /\ fault # PyNone
         THEN /\ pc' = fallback(fault)
              /\ strategies' = <<"asyncio_run", fallback(fault)>>
              /\ direct_end' = Raised(fault)
              /\ RunOperationOn(fallback(fault), loops, binding)
         ELSE /\ pc' = first_strategy(is_celery_worker, running_loop)
              /\ strategies' = <<first_strategy(is_celery_worker, running_loop)>>
              /\ direct_end' = Pending
              /\ RunOperationOn(first_strategy(is_celery_worker, running_loop),
                                loops, binding)
    /\ thread_end' = Pending
    /\ result' = Pending
    /\ StartCoroutine(kind, notifications)
    /\ UNCHANGED <<is_celery_worker, clf_vars, cred_vars, client, request>>

\* client.py 186-248 in a task of the batch: the request of notification i is
\* built and posted; the task waits for the response.
TaskStart(i) ==
    /\ TaskRunnable(i)
    /\ tasks' = [tasks EXCEPT ![i] = "inflight"]
    /\ requests' = connection_post(requests, call.notifications[i])
    /\ connections' = post_on(connections, client.connection)
    /\ UNCHANGED <<is_celery_worker, call, pc, coro, responses, completed, starts,
                   coro_result, result, strategies,
                   direct_end, thread_end, loop_vars, clf_vars, cred_vars, client,
                   request>>

\* client.py 195-237 in a task of the batch: building the request of
\* notification i raises (195-201 the payload, 235 the credentials); the task
\* ends with the error and nothing is posted for it.
TaskBuildFails(i, e) ==
    /\ TaskRunnable(i)
    /\ tasks' = [tasks EXCEPT ![i] = "done"]
    /\ responses' = [responses EXCEPT ![i] = e]
    /\ completed' = Append(completed, i)
    /\ UNCHANGED <<is_celery_worker, call, pc, coro, requests, starts, coro_result,
                   result, strategies,
                   direct_end, thread_end, loop_vars, clf_vars, cred_vars, req_vars>>

\* client.py 246-249 in a task of the batch: the stream of notification i ends
\* with a response, with an error of the connection, or cancelled.
TaskEnd(i, t) ==
    /\ coro = "gather"
    /\ i \in DOMAIN tasks
    /\ tasks[i] = "inflight"
    /\ tasks' = [tasks EXCEPT ![i] = "done"]
    /\ responses' = [responses EXCEPT ![i] = t]
    /\ completed' = Append(completed, i)
    /\ UNCHANGED <<is_celery_worker, call, pc, coro, requests, starts, coro_result,
                   result, strategies,
                   direct_end, thread_end, loop_vars, clf_vars, cred_vars, req_vars>>

\* client.py 167-184: every task has ended, gather resumes the batch.
BatchGathered ==
    /\ coro = "gather"
    /\ \A i \in DOMAIN tasks : tasks[i] = "done"
    /\ coro' = "done"
    /\ coro_result' = asend_notification_batch_end(call.notifications, responses)
    /\ UNCHANGED <<is_celery_worker, call, pc, tasks, responses, completed, requests,
                   starts, result, strategies,
                   direct_end, thread_end, loop_vars, clf_vars, cred_vars, req_vars>>

\* client.py 134-137, 246-249: the one stream of a single send ends.
SingleEnd(t) ==
    /\ coro = "post"
    /\ tasks = <<"inflight">>
    /\ tasks' = <<"done">>
    /\ responses' = <<t>>
    /\ completed' = <<1>>
    /\ coro' = "done"
    /\ coro_result' = asend_notification_end(t)
    /\ UNCHANGED <<is_celery_worker, call, pc, requests, starts, result, strategies,
                   direct_end, thread_end, loop_vars, clf_vars, cred_vars, req_vars>>

\* The awaiting caller gets what the coroutine returned or raised.
AwaitDone ==
    /\ pc = "await" /\ coro = "done" /\ ~Finished
    /\ result' = coro_result
    /\ UNCHANGED <<is_celery_worker, call, pc, coro, tasks, responses, completed,
                   requests, starts, coro_result, strategies, direct_end,
                   thread_end, loop_vars, clf_vars, cred_vars, req_vars>>

\* client.py 289-311: asyncio.run returns the coroutine's result, or raises
\* its error, which the except clauses answer by running a fresh coroutine
\* under another strategy.  Either way asyncio.run has closed its loop and
\* set the current loop of the thread to None.
AsyncioRunDone ==
    /\ pc = "asyncio_run" /\ coro = "done" /\ ~Finished
    /\ direct_end' = coro_result
    /\ IF IsReturned(coro_result) \/ fallback(coro_result.raised) = "propagate"
         THEN /\ result' = coro_result
              /\ loops' = close_loop(loops, LoopOf("asyncio_run"))
              /\ binding' = PyNone
              /\ UNCHANGED <<pc, coro, tasks, responses, completed, requests, starts,
                             coro_result, strategies, connections, coro_loop, thread>>
         ELSE /\ pc' = fallback(coro_result.raised)
              /\ strategies' = Append(strategies, fallback(coro_result.raised))
              /\ result' = Pending
              /\ RunOperationOn(fallback(coro_result.raised),
                                close_loop(loops, LoopOf("asyncio_run")), PyNone)
              /\ StartCoroutine(call.kind, call.notifications)
    /\ UNCHANGED <<is_celery_worker, call, thread_end, clf_vars, cred_vars, client, request>>

\* client.py 357-376: run_until_complete returns or raises to the caller,
\* through the finally.
ManualLoopDone ==
    /\ pc = "manual_loop" /\ coro = "done" /\ ~Finished
    /\ result' = coro_result
    /\ loops' = manual_loop_finally(loops, LoopOf("manual_loop"), binding, coro_result).loops
    /\ binding' = manual_loop_finally(loops, LoopOf("manual_loop"), binding, coro_result).binding
    /\ UNCHANGED <<is_celery_worker, call, pc, coro, tasks, responses, completed,
                   requests, starts, coro_result, strategies, direct_end,
                   thread_end, coro_loop, thread, clf_vars, cred_vars, req_vars>>

\* client.py 275-311: _run_in_separate_thread has returned or raised, and
\* _run_async goes on from the place that called it.  Under the flag of the
\* worker (277) and in the except clauses (308, 311) its outcome is the
\* call's.  For a caller inside a running loop the return of 283 sits in the
\* try of 280 whose except RuntimeError passes (284-286): a RuntimeError out
\* of _run_in_separate_thread is dropped and the call goes on to asyncio.run,
\* which refuses to run in a thread whose loop is running; that RuntimeError
\* is answered by fallback, and the manual loop's run_until_complete refuses
\* likewise and raises to the caller, through its finally.  Neither runs the
\* coroutine it was given.
SeparateThreadOver(outcome, made) ==
    /\ thread_end' = outcome
    /\ IF /\ ~is_celery_worker /\ call.running_loop
          /\ IsRaised(outcome) /\ outcome.raised.exc = "RuntimeError"
         THEN /\ direct_end' = Raised(RunInRunningLoop)
              /\ strategies' = strategies \o <<"asyncio_run", fallback(RunInRunningLoop)>>
              /\ pc' = fallback(RunInRunningLoop)
              /\ result' = Raised(LoopAlreadyRunning)
              /\ loops' = manual_loop_finally(new_event_loop(made, "manual_loop"),
                                              Len(made) + 1, LoopId(Len(made) + 1),
                                              Raised(LoopAlreadyRunning)).loops
              /\ binding' = manual_loop_finally(new_event_loop(made, "manual_loop"),
                                                Len(made) + 1, LoopId(Len(made) + 1),
                                                Raised(LoopAlreadyRunning)).binding
         ELSE /\ result' = outcome
              /\ loops' = made
              /\ UNCHANGED <<direct_end, strategies, pc, binding>>
    /\ UNCHANGED <<is_celery_worker, call, coro, tasks, responses, completed,
                   requests, starts, coro_result, coro_loop, clf_vars, cred_vars,
                   req_vars>>

\* client.py 328-346, 351-355: run_until_complete has returned or raised in
\* the worker thread, which goes through its finally, captures the Exception
\* that came through it, if one did, and ends; the join returns.
ThreadJoined ==
    /\ pc = "separate_thread" /\ thread = "running" /\ coro = "done" /\ ~Finished
    /\ thread' = "ended"
    /\ SeparateThreadOver(separate_thread_end(coro_result),
                          run_in_thread_finally(loops, LoopOf("separate_thread"),
                                                coro_result))

\* client.py 346-349: the join returns after its 300 seconds with the thread
\* alive; the thread is left to run on.
ThreadJoinTimeout ==
    /\ pc = "separate_thread" /\ thread = "running" /\ coro # "done" /\ ~Finished
    /\ thread' = join_timeout(thread)
    /\ SeparateThreadOver(Raised(TimedOut), loops)

\* client.py 328-342: the same end of the worker thread, after the join has
\* timed out: nobody waits for it.
ThreadEnd ==
    /\ thread = "running" /\ coro = "done" /\ Finished
    /\ loops' = run_in_thread_finally(loops, LoopOf("separate_thread"), coro_result)
    /\ thread' = "ended"
    /\ UNCHANGED <<is_celery_worker, call, pc, coro, tasks, responses, completed,
                   requests, starts, coro_result, result, strategies, direct_end,
                   thread_end, coro_loop, binding, clf_vars, cred_vars, req_vars>>

\* The caller has its result or its error; the client is ready for the
\* next call, on the same connection.
CallOver ==
    /\ Finished
    /\ call' = NoCall
    /\ pc' = "idle"
    /\ coro' = "none"
    /\ tasks' = <<>>
    /\ responses' = <<>>
    /\ completed' = <<>>
    /\ requests' = <<>>
    /\ starts' = 0
    /\ coro_result' = Pending
    /\ result' = Pending
    /\ strategies' = <<>>
    /\ direct_end' = Pending
    /\ thread_end' = Pending
    /\ loops' = <<>>
    /\ coro_loop' = PyNone
    /\ thread' = "none"
    /\ binding' = BoundAtCall
    /\ UNCHANGED <<is_celery_worker, clf_vars, cred_vars, req_vars>>

----------------------------------------------------------------------------
(* TokenCredentials                                                        *)

\* The threads that share one TokenCredentials, each running its own bridged
\* call; the topics a header is asked for; what the signer adds to a token
\* (the signature of the default algorithm differs from one signing to the next).
CredThreads == {"caller", "worker"}
Topics == {PyNone, PyS("com.example.a"), PyS("com.example.b")}
Signatures == {"sig1", "sig2"}

\* Every attribute a token could be cached in: the one the class has, and one
\* per topic.
TokenSlots == {"__jwt_token", "None", "com.example.a", "com.example.b"}

\* A cache partitioned by topic, as the name _get_or_create_topic_token and
\* its comment (a dict of topic to issue date and token) suggest.
topic_token_slot_per_topic(topic) ==
    IF topic = PyNone THEN "None" ELSE topic.str

\* credentials.py 84-86, 99-101, 124: get_authorization_header drops its topic;
\* every call reads and writes the one attribute self.__jwt_token.
topic_token_slot(topic) == "__jwt_token"

\* An expiry check that never lets a cached token through.
is_expired_token_always(t, issue_date, lifetime) == TRUE

\* credentials.py 88-89: time.time() > issue_date + self.__token_lifetime, t
\* being what time.time() returns.
_is_expired_token(t, issue_date, lifetime) == t > issue_date + lifetime

\* credentials.py 105-120: the signed token of claims {iss, iat}; the text
\* carries its iat.
jwt_encode(issued_at, signature) == [iat |-> issued_at, sig |-> signature]

\* credentials.py 124: (issued_at, jwt_token)
TokenPair(issue_date, token) == [issue_date |-> issue_date, token |-> token]

\* credentials.py 86: "bearer %s" % token
authorization_header(token) == [bearer |-> token]

CredIdle == [pc |-> "idle"]

\* The calls begun so far.
CredCalls == Len(headers) + Cardinality({th \in CredThreads : cred[th] # CredIdle})

\* A call that returned: its topic, the pair it read from the cache, the
\* time of its expiry check, the last time it read the clock, whether it made
\* its token, and the header it returned.
Header(c, t, fresh, token) ==
    [topic |-> c.topic, observed |-> c.token_pair,
     checked |-> c.checked, at |-> t, fresh |-> fresh,
     header |-> authorization_header(token)]

\* credentials.py 84-85, 101: thread th calls get_authorization_header(topic),
\* which reads the cached pair.
GetAuthorizationHeader(th, topic) ==
    /\ cred[th] = CredIdle
    /\ CredCalls < MaxCalls
    /\ cred' = [cred EXCEPT ![th] =
                   [pc |-> "check", topic |-> topic,
                    token_pair |-> jwt_token[topic_token_slot(topic)]]]
    /\ UNCHANGED <<dispatch_vars, clf_vars, req_vars, now, token_lifetime, jwt_token, headers>>

\* credentials.py 102, 126-127, 86: no pair, or an expired one, sends the call
\* to make a token; otherwise the call returns the cached text in its header.
CheckTokenPair(th) ==
    /\ cred[th].pc = "check"
    /\ LET c == [cred[th] EXCEPT !.pc = "create"] @@ [checked |-> now] IN
       IF \/ c.token_pair = PyNone
          \/ _is_expired_token(now, c.token_pair.issue_date, token_lifetime)
         THEN /\ cred' = [cred EXCEPT ![th] = c]
              /\ UNCHANGED headers
         ELSE /\ cred' = [cred EXCEPT ![th] = CredIdle]
              /\ headers' = Append(headers, Header(c, now, FALSE, c.token_pair.token))
    /\ UNCHANGED <<dispatch_vars, clf_vars, req_vars, now, token_lifetime, jwt_token>>

\* credentials.py 104-120: the call reads the clock and signs a token.
CreateToken(th, signature) ==
    /\ cred[th].pc = "create"
    /\ cred' = [cred EXCEPT ![th] =
                   [cred[th] EXCEPT !.pc = "store"]
                       @@ [issued_at |-> now, jwt_token |-> jwt_encode(now, signature)]]
    /\ UNCHANGED <<dispatch_vars, clf_vars, req_vars, now, token_lifetime, jwt_token, headers>>

\* credentials.py 124-125, 86: the call stores its pair and returns its token
\* in its header.
StoreToken(th) ==
    /\ cred[th].pc = "store"
    /\ LET c == cred[th] IN
       /\ jwt_token' = [jwt_token EXCEPT ![topic_token_slot(c.topic)] =
                           TokenPair(c.issued_at, c.jwt_token)]
       /\ headers' = Append(headers, Header(c, c.issued_at, TRUE, c.jwt_token))
    /\ cred' = [cred EXCEPT ![th] = CredIdle]
    /\ UNCHANGED <<dispatch_vars, clf_vars, req_vars, now, token_lifetime>>

\* A second passes.
Tick ==
    /\ now < MaxTime
    /\ now' = now + 1
    /\ UNCHANGED <<dispatch_vars, clf_vars, req_vars, token_lifetime, jwt_token, cred, headers>>

\* A TokenCredentials just constructed (credentials.py 77-79), lifetime 1.
NewCredentials ==
    /\ now = 0
    /\ token_lifetime = 1
    /\ jwt_token = [slot \in TokenSlots |-> PyNone]
    /\ cred = [th \in CredThreads |-> CredIdle]
    /\ headers = <<>>

----------------------------------------------------------------------------
(* The streams of a batch on one event loop, with TokenCredentials         *)

\* Where the task of notification i is: created, at a line of
\* get_authorization_header while it builds its request, inflight, or done.
stream_pc(i) == IF tasks[i] = "running" THEN cred[i].pc ELSE tasks[i]

\* A task that also gives the loop up while it signs its token.
suspension_point_in_refresh(position) == position \in {"inflight", "create"}

\* client.py 186-249, credentials.py 84-127: the one await of a task is the
\* post at client.py 246-248; get_authorization_header and what it calls are
\* plain functions.
suspension_point(position) == position = "inflight"

\* client.py 167: the loop of gather runs one task at a time, and takes the
\* next one when the task that runs reaches an await or ends.
MayRun(i) ==
    \A j \in DOMAIN tasks \ {i} :
        \/ stream_pc(j) \in {"created", "done"}
        \/ suspension_point(stream_pc(j))

\* client.py 195-235, credentials.py 84-85, 101: the loop starts the task of
\* notification i, which builds its headers and calls
\* get_authorization_header; the call reads the cached pair.
StreamStart(i) ==
    /\ TaskRunnable(i)
    /\ MayRun(i)
    /\ client.credentials.kind = "TokenCredentials"
    /\ tasks' = [tasks EXCEPT ![i] = "running"]
    /\ cred' = [cred EXCEPT ![i] =
                   [pc |-> "check", topic |-> PyNone,
                    token_pair |-> jwt_token[topic_token_slot(PyNone)]]]
    /\ UNCHANGED <<is_celery_worker, call, pc, coro, responses, completed, requests,
                   starts, coro_result, result, strategies, direct_end, thread_end,
                   loop_vars, clf_vars, now, token_lifetime, jwt_token, headers,
                   req_vars>>

\* client.py 236-248: the task has its header; it posts its request and
\* waits for the response.
StreamPost(i) ==
    /\ tasks' = [tasks EXCEPT ![i] = "inflight"]
    /\ cred' = [cred EXCEPT ![i] = CredIdle]
    /\ requests' = connection_post(requests, call.notifications[i])
    /\ connections' = post_on(connections, client.connection)

\* credentials.py 102, 126-127, 86: no pair, or an expired one, sends the task
\* to make a token; otherwise it has the cached text in its header, and posts.
StreamCheck(i) ==
    /\ i \in DOMAIN tasks
    /\ tasks[i] = "running"
    /\ cred[i].pc = "check"
    /\ MayRun(i)
    /\ LET c == [cred[i] EXCEPT !.pc = "create"] @@ [checked |-> now] IN
       IF \/ c.token_pair = PyNone
          \/ _is_expired_token(now, c.token_pair.issue_date, token_lifetime)
         THEN /\ cred' = [cred EXCEPT ![i] = c]
              /\ UNCHANGED <<tasks, requests, connections, headers>>
         ELSE /\ headers' = Append(headers, Header(c, now, FALSE, c.token_pair.token))
              /\ StreamPost(i)
    /\ UNCHANGED <<is_celery_worker, call, pc, coro, responses, completed,
                   starts, coro_result, result, strategies, direct_end, thread_end,
                   loop_vars, clf_vars, now, token_lifetime, jwt_token, client,
                   request>>

\* credentials.py 104-120: the task reads the clock and signs a token.
StreamCreate(i, signature) ==
    /\ i \in DOMAIN tasks
    /\ tasks[i] = "running"
    /\ cred[i].pc = "create"
    /\ MayRun(i)
    /\ cred' = [cred EXCEPT ![i] =
                   [cred[i] EXCEPT !.pc = "store"]
                       @@ [issued_at |-> now, jwt_token |-> jwt_encode(now, signature)]]
    /\ UNCHANGED <<dispatch_vars, clf_vars, req_vars, now, token_lifetime, jwt_token,
                   headers>>

\* credentials.py 124-125, 86, client.py 236-248: the task stores its pair,
\* has its token in its header, and posts.
StreamStore(i) ==
    /\ i \in DOMAIN tasks
    /\ tasks[i] = "running"
    /\ cred[i].pc = "store"
    /\ MayRun(i)
    /\ LET c == cred[i] IN
       /\ jwt_token' = [jwt_token EXCEPT ![topic_token_slot(c.topic)] =
                           TokenPair(c.issued_at, c.jwt_token)]
       /\ headers' = Append(headers, Header(c, c.issued_at, TRUE, c.jwt_token))
    /\ StreamPost(i)
    /\ UNCHANGED <<is_celery_worker, call, pc, coro, responses, completed,
                   starts, coro_result, result, strategies, direct_end, thread_end,
                   loop_vars, clf_vars, now, token_lifetime, client, request>>

\* client.py 246-249: the response of stream i has come; the loop resumes
\* its task, which ends.
StreamEnd(i, t) ==
    /\ MayRun(i)
    /\ TaskEnd(i, t)

----------------------------------------------------------------------------
(* The request of one notification: APNsClient._init_connection and        *)
(* APNsClient._send_single_notification                                    *)

\* client.py 40-44
SANDBOX_SERVER == "api.development.push.apple.com"
LIVE_SERVER == "api.push.apple.com"
DEFAULT_PORT == 443
ALTERNATIVE_PORT == 2197

\* client.py 18-29: the values of NotificationPriority and NotificationType.
Immediate == PyS("10")
Delayed == PyS("5")
NotificationPriority == {Immediate, Delayed}
NotificationType ==
    {PyS("alert"), PyS("background"), PyS("voip"), PyS("complication"),
     PyS("fileprovider"), PyS("mdm")}

PyInt(n) == [int |-> n]

\* The arguments of a send: each optional one is None or a value.
RequestTopics ==
    {PyNone, PyS(""), PyS("voip"), PyS("com.example.app"),
     PyS("com.example.app.voip"), PyS("com.example.app.complication"),
     PyS("com.example.app.pushkit.fileprovider")}
Payloads ==
    [alert : {PyNone, PyS("Hello")}, badge : {PyNone, PyInt(0)},
     sound : {PyNone, PyS("default")}]
Expirations == {PyNone, PyInt(0), PyInt(3600)}
CollapseIds == {PyNone, PyS("update-1")}

\* The credentials of a client: the base class, certificate credentials, or
\* token credentials, here with a token in their cache that has not expired.
CredentialsKinds == {"Credentials", "CertificateCredentials", "TokenCredentials"}
CredentialsOf(kind) ==
    IF kind = "TokenCredentials"
        THEN [kind |-> kind, jwt_token |-> TokenPair(0, jwt_encode(0, "sig1"))]
        ELSE [kind |-> kind, jwt_token |-> PyNone]

\* text.endswith(suffix)
EndsWith(text, suffix) ==
    /\ Len(text) >= Len(suffix)
    /\ SubSeq(text, Len(text) - Len(suffix) + 1, Len(text)) = suffix

\* The port chosen with the server: the alternative port for the sandbox.
init_connection_coupled(use_sandbox, use_alternative_port) ==
    [server |-> IF use_sandbox THEN SANDBOX_SERVER ELSE LIVE_SERVER,
     port |-> IF use_sandbox THEN ALTERNATIVE_PORT ELSE DEFAULT_PORT]

\* client.py 78-81: self._server and self._port.
_init_connection(use_sandbox, use_alternative_port) ==
    [server |-> IF use_sandbox THEN SANDBOX_SERVER ELSE LIVE_SERVER,
     port |-> IF use_alternative_port THEN ALTERNATIVE_PORT ELSE DEFAULT_PORT]

\* client.py 242: f"https://{self._server}:{self._port}/3/device/{token}"
request_url(server, port, token) ==
    "https://" \o server \o ":" \o ToDecimal(port) \o "/3/device/" \o token

\* The payload looked at before the suffix of the topic.
inferred_push_type_payload_first(topic, payload) ==
    IF topic = PyNone THEN PyNone
    ELSE IF payload.alert # PyNone \/ payload.badge # PyNone \/ payload.sound # PyNone
        THEN PyS("alert")
    ELSE IF EndsWith(topic.str, ".voip") THEN PyS("voip")
    ELSE IF EndsWith(topic.str, ".complication") THEN PyS("complication")
    ELSE IF EndsWith(topic.str, ".pushkit.fileprovider") THEN PyS("fileprovider")
    ELSE PyS("background")

\* The payload tested for truth (if payload.badge) instead of for None.
inferred_push_type_truthy(topic, payload) ==
    IF topic = PyNone THEN PyNone
    ELSE IF EndsWith(topic.str, ".voip") THEN PyS("voip")
    ELSE IF EndsWith(topic.str, ".complication") THEN PyS("complication")
    ELSE IF EndsWith(topic.str, ".pushkit.fileprovider") THEN PyS("fileprovider")
    ELSE IF \/ payload.alert \notin {PyNone, PyS("")}
            \/ payload.badge \notin {PyNone, PyInt(0)}
            \/ payload.sound \notin {PyNone, PyS("")}
        THEN PyS("alert")
    ELSE PyS("background")

\* client.py 205-221: the push type inferred from the topic and the payload;
\* None without a topic.
inferred_push_type(topic, payload) ==
    IF topic = PyNone THEN PyNone
    ELSE IF EndsWith(topic.str, ".voip") THEN PyS("voip")
    ELSE IF EndsWith(topic.str, ".complication") THEN PyS("complication")
    ELSE IF EndsWith(topic.str, ".pushkit.fileprovider") THEN PyS("fileprovider")
    ELSE IF payload.alert # PyNone \/ payload.badge # PyNone \/ payload.sound # PyNone
        THEN PyS("alert")
    ELSE PyS("background")

\* The explicit push type used only where nothing was inferred.
final_push_type_inferred_first(push_type, inferred) ==
    IF inferred # PyNone THEN inferred ELSE push_type

\* client.py 223-224: if push_type: inferred_push_type = push_type.value.  A
\* member of the enum is true, whatever its value.
final_push_type(push_type, inferred) ==
    IF push_type # PyNone THEN push_type ELSE inferred

\* An apns-push-type header written without a topic as well.
topic_headers_default_type(topic, push_type) ==
    LET with_topic == IF topic # PyNone
                        THEN DictSet(EmptyDict, "apns-topic", topic)
                        ELSE EmptyDict
    IN  IF push_type # PyNone /\ push_type # PyS("")
            THEN DictSet(with_topic, "apns-push-type", push_type)
            ELSE DictSet(with_topic, "apns-push-type", PyS("background"))

\* client.py 203-207, 226-227: the headers start empty; apns-topic is set when
\* topic is not None, apns-push-type when the push type is a non-empty string.
topic_headers(topic, push_type) ==
    LET with_topic == IF topic # PyNone
                        THEN DictSet(EmptyDict, "apns-topic", topic)
                        ELSE EmptyDict
    IN  IF push_type # PyNone /\ push_type # PyS("")
            THEN DictSet(with_topic, "apns-push-type", push_type)
            ELSE with_topic

\* The options tested for truth: an expiration of 0 writes no header.
delivery_headers_truthy(h, priority, expiration, collapse_id) ==
    LET h1 == IF priority # Immediate THEN DictSet(h, "apns-priority", priority) ELSE h
        h2 == IF expiration \notin {PyNone, PyInt(0)}
                THEN DictSet(h1, "apns-expiration", PyS(ToDecimal(expiration.int)))
                ELSE h1
    IN  IF collapse_id \notin {PyNone, PyS("")}
            THEN DictSet(h2, "apns-collapse-id", collapse_id)
            ELSE h2

\* client.py 229-233, 239-240: apns-priority when priority is not the default,
\* apns-expiration ("%d" % expiration) when expiration is not None,
\* apns-collapse-id when collapse_id is not None.
delivery_headers(h, priority, expiration, collapse_id) ==
    LET h1 == IF priority # Immediate THEN DictSet(h, "apns-priority", priority) ELSE h
        h2 == IF expiration # PyNone
                THEN DictSet(h1, "apns-expiration", PyS(ToDecimal(expiration.int)))
                ELSE h1
    IN  IF collapse_id # PyNone
            THEN DictSet(h2, "apns-collapse-id", collapse_id)
            ELSE h2

\* credentials.py 43-44, 84-86: the base class (and certificate credentials,
\* which inherit it) returns None; token credentials return the header of
\* their token.
get_authorization_header(credentials, topic) ==
    IF credentials.kind = "TokenCredentials"
        THEN authorization_header(credentials.jwt_token.token)
        ELSE PyNone

\* The header written whatever the credentials returned.
authorization_headers_always(h, auth_header) ==
    DictSet(h, "authorization", auth_header)

\* client.py 235-237: authorization is set when the credentials return a
\* header.
authorization_headers(h, auth_header) ==
    IF auth_header # PyNone THEN DictSet(h, "authorization", auth_header) ELSE h

NoRequest == [none |-> TRUE]

\* client.py 186-248: the url and the headers _send_single_notification
\* builds from its arguments, kept with them.
_send_single_notification(token, payload, topic, priority, expiration, collapse_id, push_type) ==
    [token |-> token, payload |-> payload, topic |-> topic,
     priority |-> priority, expiration |-> expiration,
     collapse_id |-> collapse_id, push_type |-> push_type,
     url |-> request_url(client.server, client.port, token),
     headers |->
         authorization_headers(
             delivery_headers(
                 topic_headers(topic,
                     final_push_type(push_type, inferred_push_type(topic, payload))),
                 priority, expiration, collapse_id),
             get_authorization_header(client.credentials, topic))]

\* client.py 123-137, 186-248: one send, with any arguments, builds its
\* request and posts it on the connection.
SendSingleNotification ==
    /\ request = NoRequest
    /\ \E token \in Tokens, payload \in Payloads, topic \in RequestTopics,
          priority \in NotificationPriority, expiration \in Expirations,
          collapse_id \in CollapseIds, push_type \in NotificationType \cup {PyNone} :
           request' = _send_single_notification(token, payload, topic, priority,
                                                expiration, collapse_id, push_type)
    /\ connections' = post_on(connections, client.connection)
    /\ UNCHANGED <<dispatch_vars, clf_vars, cred_vars, client>>

\* The response has come; the client is ready for its next send.
RequestOver ==
    /\ request # NoRequest
    /\ request' = NoRequest
    /\ UNCHANGED <<dispatch_vars, clf_vars, cred_vars, client, connections>>

\* client.py 46-84: a client constructed with the defaults.
NewClient ==
    /\ client = [use_sandbox |-> FALSE, use_alternative_port |-> FALSE,
                 server |-> _init_connection(FALSE, FALSE).server,
                 port |-> _init_connection(FALSE, FALSE).port,
                 connection |-> 1,
                 credentials |-> CredentialsOf("Credentials")]
    /\ connections = [created |-> 1, used |-> {}]
    /\ request = NoRequest

ClfIdle == [idle |-> TRUE]

Init ==
    /\ is_celery_worker \in BOOLEAN
    /\ call = NoCall
    /\ pc = "idle"
    /\ coro = "none"
    /\ tasks = <<>>
    /\ responses = <<>>
    /\ completed = <<>>
    /\ requests = <<>>
    /\ starts = 0
    /\ coro_result = Pending
    /\ result = Pending
    /\ strategies = <<>>
    /\ direct_end = Pending
    /\ thread_end = Pending
    /\ NoLoops
    /\ clf_response = ClfIdle
    /\ clf_result = ClfIdle
    /\ NewCredentials
    /\ NewClient

Next ==
    \/ \E kind \in AsyncKinds, b \in Batches : AsyncCall(kind, b)
    \/ \E kind \in BlockingKinds, b \in Batches, l \in BOOLEAN,
          f \in RunFaults \cup {PyNone} : BlockingCall(kind, b, l, f)
    \/ \E i \in 1..MaxBatch : TaskStart(i)
    \/ \E i \in 1..MaxBatch, t \in Terminations : TaskEnd(i, t)
    \/ BatchGathered
    \/ \E t \in Terminations : SingleEnd(t)
    \/ AwaitDone
    \/ AsyncioRunDone
    \/ ManualLoopDone
    \/ ThreadJoined
    \/ ThreadJoinTimeout
    \/ ThreadEnd
    \/ CallOver

Spec == Init /\ [][Next]_vars

----------------------------------------------------------------------------
(* The classifier on every response                                        *)

Classify ==
    /\ clf_result = Pending
    /\ clf_result' = _process_response(clf_response)
    /\ UNCHANGED <<dispatch_vars, clf_response, cred_vars, req_vars>>

ClassifyAnother(r) ==
    /\ clf_result # Pending
    /\ clf_response' = r
    /\ clf_result' = Pending
    /\ UNCHANGED <<dispatch_vars, cred_vars, req_vars>>

InitClassify ==
    /\ is_celery_worker = FALSE
    /\ call = NoCall
    /\ pc = "idle"
    /\ coro = "none"
    /\ tasks = <<>>
    /\ responses = <<>>
    /\ completed = <<>>
    /\ requests = <<>>
    /\ starts = 0
    /\ coro_result = Pending
    /\ result = Pending
    /\ strategies = <<>>
    /\ direct_end = Pending
    /\ thread_end = Pending
    /\ NoLoops
    /\ clf_response \in AllResponses
    /\ clf_result = Pending
    /\ NewCredentials
    /\ NewClient

\* One call followed to the end of its streams and of its worker thread, the
\* building of a request failing or not.  The loop resumes the batch once its
\* tasks have ended, and a worker thread whose operation has ended goes on to
\* its end.
StreamTerminations ==
    { Response(200, BodyRaises), Exc("ConnectError", "Connection error"),
      Exc("CancelledError", "") }

NextStreams ==
    \/ \E kind \in AsyncKinds, b \in Batches : AsyncCall(kind, b)
    \/ \E kind \in BlockingKinds, b \in Batches, l \in BOOLEAN,
          f \in RunFaults \cup {PyNone} : BlockingCall(kind, b, l, f)
    \/ \E i \in 1..MaxBatch : TaskStart(i)
    \/ \E i \in 1..MaxBatch, e \in BuildErrors : TaskBuildFails(i, e)
    \/ \E i \in 1..MaxBatch, t \in StreamTerminations : TaskEnd(i, t)
    \/ BatchGathered
    \/ \E t \in StreamTerminations : SingleEnd(t)
    \/ AwaitDone
    \/ AsyncioRunDone
    \/ ManualLoopDone
    \/ ThreadJoined
    \/ ThreadJoinTimeout
    \/ ThreadEnd

SpecStreams ==
    /\ Init
    /\ [][NextStreams]_vars
    /\ WF_vars(BatchGathered)
    /\ WF_vars(ThreadEnd)

NextClassify ==
    \/ Classify
    \/ \E r \in AllResponses : ClassifyAnother(r)

SpecClassify == InitClassify /\ [][NextClassify]_vars

----------------------------------------------------------------------------
(* One TokenCredentials: called by one thread, and shared by two           *)

InitCred ==
    /\ is_celery_worker = FALSE
    /\ call = NoCall
    /\ pc = "idle"
    /\ coro = "none"
    /\ tasks = <<>>
    /\ responses = <<>>
    /\ completed = <<>>
    /\ requests = <<>>
    /\ starts = 0
    /\ coro_result = Pending
    /\ result = Pending
    /\ strategies = <<>>
    /\ direct_end = Pending
    /\ thread_end = Pending
    /\ NoLoops
    /\ clf_response = ClfIdle
    /\ clf_result = ClfIdle
    /\ now = 0
    /\ token_lifetime \in 1..MaxLifetime
    /\ jwt_token = [slot \in TokenSlots |-> PyNone]
    /\ cred = [th \in CredThreads |-> CredIdle]
    /\ headers = <<>>
    /\ NewClient

NextCred ==
    \/ \E topic \in Topics : GetAuthorizationHeader("caller", topic)
    \/ CheckTokenPair("caller")
    \/ \E signature \in Signatures : CreateToken("caller", signature)
    \/ StoreToken("caller")
    \/ Tick

SpecCred == InitCred /\ [][NextCred]_vars

NextCredThreads ==
    \/ \E th \in CredThreads, topic \in Topics : GetAuthorizationHeader(th, topic)
    \/ \E th \in CredThreads : CheckTokenPair(th)
    \/ \E th \in CredThreads, signature \in Signatures : CreateToken(th, signature)
    \/ \E th \in CredThreads : StoreToken(th)
    \/ Tick

SpecCredThreads == InitCred /\ [][NextCredThreads]_vars

----------------------------------------------------------------------------
(* One awaited batch of a client with TokenCredentials, on one loop        *)

\* client.py 46-84, credentials.py 77-79: a client constructed with the
\* defaults and a new TokenCredentials, whose cache is empty.
NewTokenClient ==
    /\ client = [use_sandbox |-> FALSE, use_alternative_port |-> FALSE,
                 server |-> _init_connection(FALSE, FALSE).server,
                 port |-> _init_connection(FALSE, FALSE).port,
                 connection |-> 1,
                 credentials |-> [kind |-> "TokenCredentials", jwt_token |-> PyNone]]
    /\ connections = [created |-> 1, used |-> {}]
    /\ request = NoRequest

InitScheduler ==
    /\ is_celery_worker = FALSE
    /\ call = NoCall
    /\ pc = "idle"
    /\ coro = "none"
    /\ tasks = <<>>
    /\ responses = <<>>
    /\ completed = <<>>
    /\ requests = <<>>
    /\ starts = 0
    /\ coro_result = Pending
    /\ result = Pending
    /\ strategies = <<>>
    /\ direct_end = Pending
    /\ thread_end = Pending
    /\ NoLoops
    /\ clf_response = ClfIdle
    /\ clf_result = ClfIdle
    /\ now = 0
    /\ token_lifetime \in 1..MaxLifetime
    /\ jwt_token = [slot \in TokenSlots |-> PyNone]
    /\ cred = [i \in 1..MaxBatch |-> CredIdle]
    /\ headers = <<>>
    /\ NewTokenClient

\* What a stream ends with here: its response; how a stream ends has no part
\* in how it got its header.
SchedulerTerminations == {Response(200, BodyRaises)}

NextScheduler ==
    \/ \E notifications \in Batches :
           AsyncCall("asend_notification_batch", notifications)
    \/ \E i \in 1..MaxBatch : StreamStart(i)
    \/ \E i \in 1..MaxBatch : StreamCheck(i)
    \/ \E i \in 1..MaxBatch, signature \in Signatures : StreamCreate(i, signature)
    \/ \E i \in 1..MaxBatch : StreamStore(i)
    \/ \E i \in 1..MaxBatch, t \in SchedulerTerminations : StreamEnd(i, t)
    \/ BatchGathered
    \/ AwaitDone
    \/ Tick

SpecScheduler == InitScheduler /\ [][NextScheduler]_vars

----------------------------------------------------------------------------
(* The requests of one client                                              *)

InitRequest ==
    /\ is_celery_worker = FALSE
    /\ call = NoCall
    /\ pc = "idle"
    /\ coro = "none"
    /\ tasks = <<>>
    /\ responses = <<>>
    /\ completed = <<>>
    /\ requests = <<>>
    /\ starts = 0
    /\ coro_result = Pending
    /\ result = Pending
    /\ strategies = <<>>
    /\ direct_end = Pending
    /\ thread_end = Pending
    /\ NoLoops
    /\ clf_response = ClfIdle
    /\ clf_result = ClfIdle
    /\ NewCredentials
    /\ \E use_sandbox \in BOOLEAN, use_alternative_port \in BOOLEAN,
          kind \in CredentialsKinds :
           client = [use_sandbox |-> use_sandbox,
                     use_alternative_port |-> use_alternative_port,
                     server |-> _init_connection(use_sandbox, use_alternative_port).server,
                     port |-> _init_connection(use_sandbox, use_alternative_port).port,
                     connection |-> 1,
                     credentials |-> CredentialsOf(kind)]
    /\ connections = [created |-> 1, used |-> {}]
    /\ request = NoRequest

NextRequest ==
    \/ SendSingleNotification
    \/ RequestOver

SpecRequest == InitRequest /\ [][NextRequest]_vars

----------------------------------------------------------------------------
(* Properties of the batch dispatch                                        *)

BatchDone == call.kind \in BatchKinds /\ coro = "done"

\* The outcome of one stream by the taxonomy: a request that raised is
\* InternalException, a response is what the classifier makes of it.
StreamOutcome(t) ==
    IF IsExc(t) THEN PyS("InternalException") ELSE _process_response(t).returned

\* Every stream of the batch ended with a response or with an Exception.
NoneCancelled == \A i \in DOMAIN responses : IsResponse(responses[i]) \/ IsExceptionInstance(responses[i])
SomeRaised == \E i \in DOMAIN responses : IsExceptionInstance(responses[i])

\* Notification i is the last of the batch with its token.
LastOfToken(i) ==
    \A j \in DOMAIN call.notifications :
        call.notifications[j] = call.notifications[i] => j <= i

\* C1 as stated: when the request of one notification raises, the outcome of
\* its token is InternalException and every sibling is reported with its own
\* classified outcome.
C1_TokenOfFailedRequest ==
    (BatchDone /\ NoneCancelled /\ SomeRaised) =>
        /\ IsReturned(coro_result)
        /\ \A i \in DOMAIN responses :
               /\ call.notifications[i] \in DOMAIN coro_result.returned.dict
               /\ coro_result.returned.dict[call.notifications[i]]
                      = StreamOutcome(responses[i])

\* C1 amended: when the request of one notification raises an Exception, the
\* batch still returns, the outcome recorded for that notification is
\* InternalException and every sibling's is its own classified outcome; it is
\* the outcome of its token in the result when no later notification of the
\* batch has the same token.
C1_FailureIsolated ==
    (BatchDone /\ NoneCancelled /\ SomeRaised) =>
        /\ IsReturned(coro_result)
        /\ \A i \in DOMAIN responses : LastOfToken(i) =>
               /\ call.notifications[i] \in DOMAIN coro_result.returned.dict
               /\ coro_result.returned.dict[call.notifications[i]]
                      = (IF IsExceptionInstance(responses[i])
                           THEN PyS("InternalException")
                           ELSE StreamOutcome(responses[i]))

C1_Witness ==
    /\ BatchDone /\ IsReturned(coro_result)
    /\ Len(call.notifications) = 2
    /\ call.notifications[1] # call.notifications[2]
    /\ responses[1] = Response(200, BodyRaises)
    /\ responses[2] = Exc("ConnectError", "Connection error")
    /\ coro_result.returned.dict[call.notifications[1]] = PyS("Success")
    /\ coro_result.returned.dict[call.notifications[2]] = PyS("InternalException")

\* C2: asend_notification_batch never raises to its caller, whatever its
\* streams ended with (a response, an error of any kind, a cancellation).
C2_BatchNeverRaises ==
    BatchDone => IsReturned(coro_result)

\* C3: the result of a batch has exactly one entry per distinct token of the
\* batch: its keys are the tokens of the batch, all of them and no other.
C3_OneEntryPerToken ==
    /\ (BatchDone /\ IsReturned(coro_result)) =>
           /\ DOMAIN coro_result.returned.dict = Range(call.notifications)
           /\ Cardinality(DOMAIN coro_result.returned.dict)
                  = Cardinality(Range(call.notifications))
    /\ (call.kind \in BatchKinds /\ Finished /\ IsReturned(result)) =>
           /\ DOMAIN result.returned.dict = Range(call.notifications)
           /\ Cardinality(DOMAIN result.returned.dict)
                  = Cardinality(Range(call.notifications))

C3_Witness ==
    /\ call.kind \in BatchKinds /\ Finished /\ IsReturned(result)
    /\ Len(call.notifications) = 2
    /\ call.notifications[1] = call.notifications[2]
    /\ SomeRaised
    /\ Cardinality(DOMAIN result.returned.dict) = 1

\* C4: for a token that several notifications of the batch carry, the result
\* holds the outcome of the last of them in the input order, whatever the
\* order in which the streams ended.
C4_LastInputWins ==
    (BatchDone /\ IsReturned(coro_result)) =>
        \A i \in DOMAIN call.notifications : LastOfToken(i) =>
            coro_result.returned.dict[call.notifications[i]] = StreamOutcome(responses[i])

C4_Witness ==
    /\ BatchDone /\ IsReturned(coro_result)
    /\ Len(call.notifications) = 2
    /\ call.notifications[1] = call.notifications[2]
    /\ completed = <<2, 1>>
    /\ StreamOutcome(responses[1]) # StreamOutcome(responses[2])
    /\ coro_result.returned.dict[call.notifications[1]] = StreamOutcome(responses[2])

\* C5: an empty batch, awaited or run by any strategy of the bridge, posts no
\* request and gives its caller an empty dict.
C5_EmptyBatch ==
    (call.kind \in BatchKinds /\ call.notifications = <<>>) =>
        /\ requests = <<>>
        /\ coro_result = Returned(PyDict(EmptyDict))
        /\ Finished => result = Returned(PyDict(EmptyDict))

C5_Witness ==
    /\ call.kind = "send_notification_batch" /\ call.notifications = <<>>
    /\ pc = "separate_thread"
    /\ Finished /\ result = Returned(PyDict(EmptyDict))
    /\ requests = <<>>

\* C6: a call whose streams all succeed has posted exactly one request per
\* input notification, duplicates of a token included, in the order of the
\* input; a single send, exactly one.  (A call starts its coroutine a second
\* time only after the first one raised, so the streams of a call all succeed
\* only when it started one.)
AllSucceeded ==
    \A i \in DOMAIN responses :
        IsResponse(responses[i]) /\ responses[i].status_code = 200
C6_OneRequestPerNotification ==
    (coro = "done" /\ starts = 1 /\ AllSucceeded) =>
        /\ requests = call.notifications
        /\ Len(requests) = Len(call.notifications)
        /\ call.kind \in SingleKinds => Len(requests) = 1

C6_Witness ==
    /\ call.kind \in BatchKinds /\ Finished /\ IsReturned(result)
    /\ starts = 1 /\ AllSucceeded
    /\ Len(call.notifications) = 2
    /\ call.notifications[1] = call.notifications[2]
    /\ Len(requests) = 2

\* C7: the requests of a batch are issued without waiting for the response of
\* a sibling: the next task can post while earlier ones are in flight, and a
\* stream in flight can end while its siblings have not.
C7_NoWaitingForSiblings ==
    /\ \A i \in 1..MaxBatch :
           ( /\ coro = "gather" /\ i \in DOMAIN tasks /\ tasks[i] = "created"
             /\ \A j \in 1..(i - 1) : tasks[j] # "created" )
               => ENABLED TaskStart(i)
    /\ \A i \in 1..MaxBatch :
           (coro = "gather" /\ i \in DOMAIN tasks /\ tasks[i] = "inflight")
               => \A t \in Terminations : ENABLED TaskEnd(i, t)

C7_Witness ==
    /\ coro = "gather"
    /\ Len(tasks) >= 2
    /\ \A i \in DOMAIN tasks : tasks[i] = "inflight"
    /\ Len(requests) = Len(tasks)

----------------------------------------------------------------------------
(* Properties of the classifier                                            *)

Classified == clf_result # Pending /\ IsResponse(clf_response)

\* The text of a decoded scalar, written out.
TextOf(v) ==
    IF v = JsonNull THEN "None"
    ELSE IF v = JsonNum(1234567890) THEN "1234567890"
    ELSE v.jstr

\* C8: a response with status 200 is Success, whatever its body is and
\* whatever reading the body would do.
C8_Status200IsSuccess ==
    (Classified /\ clf_response.status_code = 200) =>
        clf_result = Returned(PyS("Success"))

C8_Witness ==
    /\ Classified
    /\ clf_response = Response(200, BodyRaises)
    /\ clf_result = Returned(PyS("Success"))

\* C9 as stated: a 410 response whose body parses gives the pair
\* (reason, timestamp).
C9_Parseable410IsPair ==
    (Classified /\ clf_response.status_code = 410 /\ clf_response.body # BodyRaises) =>
        /\ IsReturned(clf_result)
        /\ "tuple" \in DOMAIN clf_result.returned

\* C9 amended: a 410 response whose body parses to a key/value document gives
\* the pair (reason, timestamp), both as strings: the reason is "Unregistered"
\* when the document has no reason field and the timestamp "" when it has no
\* timestamp field.
C9_Document410IsPair ==
    (Classified /\ clf_response.status_code = 410 /\ clf_response.body # BodyRaises
        /\ IsDict(clf_response.body.json)) =>
        LET d == clf_response.body.json.jdict IN
        clf_result = Returned(PyTuple(
            IF "reason" \in DOMAIN d THEN TextOf(d["reason"]) ELSE "Unregistered",
            IF "timestamp" \in DOMAIN d THEN TextOf(d["timestamp"]) ELSE ""))

C9_Witness ==
    /\ Classified
    /\ clf_response.status_code = 410
    /\ clf_response.body = BodyJson(JsonDict(EmptyDict))
    /\ clf_result = Returned(PyTuple("Unregistered", ""))

\* C10: a response whose status is neither 200 nor 410 and whose body parses
\* to a document with a reason field gives that reason, as a string, for
\* every such status.
C10_ReasonIsRejection ==
    (Classified /\ clf_response.status_code \notin {200, 410}
        /\ clf_response.body # BodyRaises /\ IsDict(clf_response.body.json)
        /\ "reason" \in DOMAIN clf_response.body.json.jdict) =>
        clf_result = Returned(PyS(TextOf(clf_response.body.json.jdict["reason"])))

C10_Witness ==
    /\ Classified
    /\ clf_response.status_code = 503
    /\ clf_response.body # BodyRaises /\ IsDict(clf_response.body.json)
    /\ "reason" \in DOMAIN clf_response.body.json.jdict
    /\ clf_result = Returned(PyS("BadDeviceToken"))

\* C11: a response whose status is not 200 (410 included) and whose body
\* fails to parse, or parses to something that is no key/value document, is
\* classified InternalException: the classifier returns, it does not raise.
C11_UnreadableBodyIsInternal ==
    (Classified /\ clf_response.status_code # 200
        /\ (clf_response.body = BodyRaises \/ ~IsDict(clf_response.body.json))) =>
        clf_result = Returned(PyS("InternalException"))

C11_Witness ==
    /\ Classified
    /\ clf_response = Response(410, BodyJson(JsonList))
    /\ clf_result = Returned(PyS("InternalException"))

----------------------------------------------------------------------------
(* Properties of TokenCredentials                                          *)

\* The issue time of the token a returned header carries.
IssuedAt(h) == h.header.bearer.iat

\* C12: with one caller, a call whose expiry check is made less than lifetime
\* seconds after the issue time of the token an earlier call returned returns
\* the same text; a call whose check is made more than lifetime seconds after
\* the issue time of the token the call before it returned makes a token,
\* returns a different text and leaves its token in the cache.
C12_ReuseThenReplace ==
    /\ \A i, j \in DOMAIN headers :
           (i < j /\ headers[j].checked < IssuedAt(headers[i]) + token_lifetime)
               => headers[j].header = headers[i].header
    /\ \A j \in DOMAIN headers :
           (j > 1 /\ headers[j].checked > IssuedAt(headers[j - 1]) + token_lifetime)
               => /\ headers[j].fresh
                  /\ headers[j].header # headers[j - 1].header
                  /\ (j = Len(headers) /\ cred["caller"] = CredIdle)
                        => jwt_token["__jwt_token"]
                               = TokenPair(IssuedAt(headers[j]), headers[j].header.bearer)

C12_Witness ==
    /\ Len(headers) = 3
    /\ headers[1].fresh /\ ~headers[2].fresh /\ headers[3].fresh
    /\ headers[2].header = headers[1].header
    /\ headers[3].checked > IssuedAt(headers[1]) + token_lifetime
    /\ headers[3].header # headers[2].header
    /\ jwt_token["__jwt_token"].token = headers[3].header.bearer

\* C13: every header returned comes from a token with
\* issued_at <= now < issued_at + lifetime, now being the last reading of the
\* clock by the call that returned it: at now = issued_at + lifetime the
\* cached token is not returned.
C13_ServedWithinLifetime ==
    \A i \in DOMAIN headers :
        /\ IssuedAt(headers[i]) <= headers[i].at
        /\ headers[i].at < IssuedAt(headers[i]) + token_lifetime

\* C14: the callers of get_authorization_header on one TokenCredentials that
\* read the same absent or expired cache do not each make and store a token.
C14_RefreshSerialized ==
    \A i, j \in DOMAIN headers :
        (headers[i].fresh /\ headers[j].fresh /\ headers[i].observed = headers[j].observed)
            => i = j

----------------------------------------------------------------------------
(* Properties of the blocking bridge                                       *)

Blocking == call.kind \in BlockingKinds

\* A step of the coroutine of the call.
CallStep ==
    \/ \E i \in 1..MaxBatch : TaskStart(i)
    \/ \E i \in 1..MaxBatch, t \in Terminations : TaskEnd(i, t)
    \/ BatchGathered
    \/ \E t \in Terminations : SingleEnd(t)

\* C16: a blocking send called in a thread whose event loop is running does
\* not deadlock (while it has not ended, its operation can take a step or has
\* ended and the join returns) and, its thread joined in time, ends with what the call ends with in
\* a plain blocking context: what its operation returned or raised.
C16_SameResultInsideLoop ==
    (Blocking /\ call.running_loop /\ thread_end # Raised(TimedOut)) =>
        /\ ~Finished => (ENABLED CallStep \/ (pc = "separate_thread" /\ coro = "done"))
        /\ (Finished /\ coro = "done") => result = coro_result

\* C17: the first strategy of a blocking call is decided by the flag of the
\* worker and by whether the calling thread has a running loop, and by nothing
\* else: a separate thread under the flag, a separate thread without the flag
\* inside a running loop, asyncio.run otherwise.
C17_FirstStrategy ==
    Blocking =>
        /\ strategies # <<>>
        /\ strategies[1] = (IF is_celery_worker THEN "separate_thread"
                            ELSE IF call.running_loop THEN "separate_thread"
                            ELSE "asyncio_run")

C17_Witness ==
    /\ Blocking
    /\ is_celery_worker /\ ~call.running_loop
    /\ strategies = <<"separate_thread">>
    /\ Finished /\ IsReturned(result)

\* The errors about the life of the event loop: closed, already running.
LifecycleErrors == {Exc("RuntimeError", "Event loop is closed"), RunInRunningLoop}

\* Where asyncio.run stands among the strategies of the call.
DirectAt == CHOOSE k \in DOMAIN strategies : strategies[k] = "asyncio_run"

\* C18 as stated: asyncio.run failing with an error about the event loop is
\* followed by the manual loop, failing with any other error by a separate
\* thread, and succeeding by nothing.
C18_AnyErrorFallsBack ==
    (Blocking /\ direct_end # Pending) =>
        IF IsReturned(direct_end)
            THEN Len(strategies) = DirectAt /\ result = direct_end
        ELSE IF direct_end.raised \in LifecycleErrors
            THEN Len(strategies) > DirectAt /\ strategies[DirectAt + 1] = "manual_loop"
        ELSE Len(strategies) > DirectAt /\ strategies[DirectAt + 1] = "separate_thread"

\* C18 amended: asyncio.run failing with a RuntimeError about the event loop
\* is followed by the manual loop, failing with any other error that derives
\* from Exception by a separate thread; an error that does not derive from
\* Exception (a cancellation) reaches the caller with no fallback, and so
\* does the result when asyncio.run succeeds.
C18_ExceptionFallsBack ==
    (Blocking /\ direct_end # Pending) =>
        IF IsReturned(direct_end)
            THEN Len(strategies) = DirectAt /\ result = direct_end
        ELSE IF direct_end.raised \in LifecycleErrors
            THEN Len(strategies) > DirectAt /\ strategies[DirectAt + 1] = "manual_loop"
        ELSE IF direct_end.raised.exc \in ExceptionClasses
            THEN Len(strategies) > DirectAt /\ strategies[DirectAt + 1] = "separate_thread"
        ELSE Len(strategies) = DirectAt /\ result = direct_end

C18_Witness ==
    /\ Blocking
    /\ direct_end = Raised(Exc("RuntimeError", "Event loop is closed"))
    /\ strategies = <<"asyncio_run", "manual_loop">>
    /\ starts = 1
    /\ Finished /\ IsReturned(result)

\* C19: whenever the thread of a call is alive after the join, the call raises
\* the error of the timeout to its caller, whichever place of _run_async
\* started the thread.
C19_TimeoutReachesCaller ==
    thread_end = Raised(TimedOut) => result = Raised(TimedOut)

\* C20: when the operation run in the thread raises, the thread being joined
\* in time, the call raises that same error to its caller, whatever the error
\* and whichever place of _run_async started the thread.
C20_ThreadErrorReachesCaller ==
    (thread_end \notin {Pending, Raised(TimedOut)} /\ IsRaised(coro_result))
        => result = coro_result

\* C21: the strategies of the bridge are alike to the caller: whichever of
\* them ran the operation last, its thread joined in time if it had one, the
\* call ends with what the operation returned or raised.
C21_StrategiesAlike ==
    (Blocking /\ Finished /\ coro = "done" /\ thread_end # Raised(TimedOut))
        => \A strategy \in {"asyncio_run", "manual_loop", "separate_thread"} :
               pc = strategy => result = coro_result

\* The errors of the transport: what connection.post raises for a request
\* that did not get its response.
TransportErrors == {Exc("ConnectError", "Connection error"), Exc("ReadTimeout", "")}

\* C22: a single send is not failure-isolated: once the connection has raised
\* an error of the transport for the request of the call, awaited or blocking,
\* the call ends with that error raised, and returns no outcome.
C22_SingleSendPropagates ==
    ( /\ call.kind \in SingleKinds /\ Finished /\ thread_end # Raised(TimedOut)
      /\ \/ responses[1] \in TransportErrors
         \/ (IsRaised(direct_end) /\ direct_end.raised \in TransportErrors) )
        => /\ IsRaised(result)
           /\ result.raised \in TransportErrors

----------------------------------------------------------------------------
(* Properties of the request of a notification                             *)

Built == request # NoRequest

HasHeader(name) == name \in DOMAIN request.headers

SpecialSuffixes == {".voip", ".complication", ".pushkit.fileprovider"}

\* No push_type given, and a topic given.
InferredFromTopic == Built /\ request.push_type = PyNone /\ request.topic # PyNone

\* C23: with no push_type given, a topic that ends in .voip gives the push
\* type voip, one that ends in .complication gives complication and one that
\* ends in .pushkit.fileprovider gives fileprovider, whatever alert, badge and
\* sound the payload has.
C23_SuffixDecides ==
    InferredFromTopic =>
        /\ EndsWith(request.topic.str, ".voip")
               => HasHeader("apns-push-type")
                  /\ request.headers["apns-push-type"] = PyS("voip")
        /\ EndsWith(request.topic.str, ".complication")
               => HasHeader("apns-push-type")
                  /\ request.headers["apns-push-type"] = PyS("complication")
        /\ EndsWith(request.topic.str, ".pushkit.fileprovider")
               => HasHeader("apns-push-type")
                  /\ request.headers["apns-push-type"] = PyS("fileprovider")

C23_Witness ==
    /\ InferredFromTopic
    /\ request.topic = PyS("com.example.app.voip")
    /\ request.payload = [alert |-> PyS("Hello"), badge |-> PyInt(0), sound |-> PyS("default")]
    /\ request.headers["apns-push-type"] = PyS("voip")

\* C24: with no push_type given and a topic with none of the three suffixes,
\* the push type is alert when the payload has an alert, a badge (0 included)
\* or a sound, and background when it has none of them.
C24_PayloadDecides ==
    (InferredFromTopic /\ \A suffix \in SpecialSuffixes : ~EndsWith(request.topic.str, suffix)) =>
        /\ HasHeader("apns-push-type")
        /\ request.headers["apns-push-type"]
               = (IF \/ request.payload.alert # PyNone
                     \/ request.payload.badge # PyNone
                     \/ request.payload.sound # PyNone
                    THEN PyS("alert") ELSE PyS("background"))

C24_Witness ==
    /\ InferredFromTopic
    /\ request.topic = PyS("com.example.app")
    /\ request.payload = [alert |-> PyNone, badge |-> PyInt(0), sound |-> PyNone]
    /\ request.headers["apns-push-type"] = PyS("alert")

\* C25: a push_type that is given is the value of apns-push-type, for every
\* topic (with a suffix, plain, absent) and every payload.
C25_ExplicitPushTypeWins ==
    (Built /\ request.push_type # PyNone) =>
        /\ HasHeader("apns-push-type")
        /\ request.headers["apns-push-type"] = request.push_type

C25_Witness ==
    /\ Built
    /\ request.push_type = PyS("background")
    /\ request.topic = PyS("com.example.app.voip")
    /\ request.payload.alert # PyNone
    /\ request.headers["apns-push-type"] = PyS("background")

\* C26: apns-topic is in the headers exactly when a topic is given, with the
\* topic as its value; with no topic and no push_type given the request has no
\* apns-push-type header.
C26_TopicHeader ==
    Built =>
        /\ HasHeader("apns-topic") <=> request.topic # PyNone
        /\ HasHeader("apns-topic") => request.headers["apns-topic"] = request.topic
        /\ (request.topic = PyNone /\ request.push_type = PyNone)
               => ~HasHeader("apns-push-type")

C26_Witness ==
    /\ Built
    /\ request.topic = PyNone /\ request.push_type = PyNone
    /\ request.payload.alert # PyNone
    /\ ~HasHeader("apns-topic") /\ ~HasHeader("apns-push-type")

\* The decimal text of the expirations.
ExpirationText(e) == IF e = PyInt(0) THEN PyS("0") ELSE PyS("3600")

\* C27: apns-priority is in the headers exactly when the priority is not
\* Immediate (with "5" for Delayed), apns-expiration exactly when an
\* expiration is given, as its decimal text ("0" for 0), apns-collapse-id
\* exactly when a collapse_id is given, with it as its value.
C27_DeliveryHeaders ==
    Built =>
        /\ HasHeader("apns-priority") <=> request.priority # Immediate
        /\ request.priority = Delayed => request.headers["apns-priority"] = PyS("5")
        /\ HasHeader("apns-expiration") <=> request.expiration # PyNone
        /\ request.expiration # PyNone
               => request.headers["apns-expiration"] = ExpirationText(request.expiration)
        /\ HasHeader("apns-collapse-id") <=> request.collapse_id # PyNone
        /\ request.collapse_id # PyNone
               => request.headers["apns-collapse-id"] = request.collapse_id

C27_Witness ==
    /\ Built
    /\ request.priority = Delayed /\ request.headers["apns-priority"] = PyS("5")
    /\ request.expiration = PyInt(0) /\ request.headers["apns-expiration"] = PyS("0")
    /\ request.collapse_id = PyNone /\ ~HasHeader("apns-collapse-id")

\* C28: the request of a client with the base or with certificate credentials
\* has no authorization header; the request of a client with token
\* credentials has one, bearer and the text of the cached token.
C28_AuthorizationHeader ==
    Built =>
        IF client.credentials.kind = "TokenCredentials"
            THEN /\ HasHeader("authorization")
                 /\ request.headers["authorization"]
                        = [bearer |-> client.credentials.jwt_token.token]
            ELSE ~HasHeader("authorization")

C28_Witness ==
    /\ Built
    /\ client.credentials.kind = "CertificateCredentials"
    /\ request.topic # PyNone
    /\ ~HasHeader("authorization")

\* C29: every request goes to https://{server}:{port}/3/device/{token} with
\* the token of its notification, the server being the sandbox's exactly when
\* use_sandbox was set and the port 2197 exactly when use_alternative_port was
\* set, 443 otherwise; and no step changes what the construction fixed.
C29_UrlOfEveryRequest ==
    /\ [](Built =>
            request.url =
                "https://"
                \o (IF client.use_sandbox THEN "api.development.push.apple.com"
                                          ELSE "api.push.apple.com")
                \o ":"
                \o (IF client.use_alternative_port THEN "2197" ELSE "443")
                \o "/3/device/" \o request.token)
    /\ [][client' = client]_vars

C29_Witness ==
    /\ Built
    /\ client.use_sandbox /\ ~client.use_alternative_port
    /\ request.token = "t2"
    /\ request.url = "https://api.development.push.apple.com:443/3/device/t2"

----------------------------------------------------------------------------
(* Properties of the connection                                            *)

\* C30: the connection of the client is made once, when the client is
\* constructed; no send, single or batch, under any strategy, after any
\* fallback, error or timeout, makes another or replaces it, and every
\* request is posted on it.
C30_OneConnection ==
    /\ [](/\ connections.created = 1
          /\ client.connection = 1
          /\ connections.used \subseteq {client.connection})
    /\ [][client'.connection = client.connection]_vars

\* A blocking call whose first run failed was run again in a thread and
\* timed out there, with requests posted by both runs.
C30_Witness ==
    /\ Finished
    /\ Len(strategies) > 1
    /\ thread_end = Raised(TimedOut)
    /\ Len(requests) > 1
    /\ connections.used = {client.connection}

----------------------------------------------------------------------------
(* Properties of the bridge's runs, threads and event loops                *)

\* C34: one blocking call starts its operation at most once, whatever
\* strategies and fallbacks it goes through, and so posts at most one request
\* for each notification it was given, also when the operation raises.
C34_StartedOnce ==
    Blocking =>
        /\ starts <= 1
        /\ Len(requests) <= Len(call.notifications)

\* The event loop of the worker thread is closed.
ThreadLoopClosed ==
    /\ \E i \in DOMAIN loops : loops[i].by = "separate_thread"
    /\ loops[LoopOf("separate_thread")].closed

\* The join of the worker thread returned with the thread ended.
JoinedInTime == thread_end # Pending /\ thread_end # Raised(TimedOut)

\* C31: the event loop the worker thread made is closed whether the
\* operation returned or raised, and it is closed when the thread has ended,
\* hence when a join that did not time out has returned.
C31_TeardownBeforeJoin ==
    /\ thread = "ended" => ThreadLoopClosed
    /\ JoinedInTime => (thread = "ended" /\ ThreadLoopClosed)

\* The operation raised in the worker thread and the join returned in time.
C31_Witness ==
    /\ JoinedInTime
    /\ IsRaised(coro_result)
    /\ thread = "ended"
    /\ ThreadLoopClosed

\* The join of the worker thread timed out.
Orphaned == thread_end = Raised(TimedOut)

\* Every stream of the operation has ended.
StreamsEnded == coro = "done" \/ (tasks # <<>> /\ \A i \in DOMAIN tasks : tasks[i] = "done")

\* A step of the operation or of its thread.
OperationStep ==
    \/ \E i \in DOMAIN tasks : TaskStart(i)
    \/ \E i \in DOMAIN tasks, t \in StreamTerminations : TaskEnd(i, t)
    \/ BatchGathered
    \/ \E t \in StreamTerminations : SingleEnd(t)
    \/ ThreadEnd

\* C32: a join that times out ends the caller's wait only.  After it, while
\* the worker thread runs, a step of its operation (a request posted, a
\* stream answered) or of the thread can be taken; the thread ends by the end
\* of its operation and in no other way, with its event loop closed; and once
\* its streams have all ended it does end.
C32_OrphanRunsOn ==
    /\ []((Orphaned /\ thread = "running") => ENABLED OperationStep)
    /\ [][(thread = "running" /\ thread' # "running")
             => (coro = "done" /\ thread' = "ended" /\ ThreadLoopClosed')]_vars
    /\ (Orphaned /\ StreamsEnded) ~> (thread = "ended" /\ ThreadLoopClosed)

\* The join timed out with the batch's requests not all posted; the thread
\* has ended since, with a result for every token.
C32_Witness ==
    /\ Orphaned /\ Finished
    /\ call.kind = "send_notification_batch"
    /\ Len(call.notifications) > 1
    /\ thread = "ended" /\ ThreadLoopClosed
    /\ IsReturned(coro_result)
    /\ \A i \in DOMAIN responses : IsResponse(responses[i])

\* Every task of the batch has ended.
TasksEnded ==
    \A i \in DOMAIN tasks : tasks[i] = "done" /\ responses[i] # Pending

\* C35: the batch has ended only when each of its streams has ended, a result
\* it returned has an entry for every token of the list, and once its
\* streams have all ended the batch returns its result.
C35_BatchReturnsWhole ==
    /\ []((call.kind \in BatchKinds /\ coro = "done") =>
             /\ TasksEnded
             /\ IsReturned(coro_result) =>
                    DOMAIN coro_result.returned.dict = Range(call.notifications))
    /\ (call.kind \in BatchKinds /\ coro = "gather" /\ TasksEnded)
           ~> (coro = "done" /\ IsReturned(coro_result))

\* The request of notification i was not built.
Unbuilt(i) == responses[i] \in BuildErrors
SomeUnbuilt == \E i \in DOMAIN responses : Unbuilt(i)

\* The requests one run of the batch has posted: those of the notifications
\* whose request was built, in some order.
PostedForBuilt ==
    /\ Len(requests) = Cardinality({i \in DOMAIN responses : ~Unbuilt(i)})
    /\ \A i \in DOMAIN responses : ~Unbuilt(i) => call.notifications[i] \in Range(requests)

\* C36 as stated: when building the request of one notification of a batch
\* raises, nothing is posted for it, its token gets InternalException and the
\* siblings are posted and get their classified outcomes.
C36_TokenOfUnbuiltRequest ==
    (BatchDone /\ NoneCancelled /\ SomeUnbuilt /\ starts = 1) =>
        /\ IsReturned(coro_result)
        /\ PostedForBuilt
        /\ \A i \in DOMAIN responses :
               /\ call.notifications[i] \in DOMAIN coro_result.returned.dict
               /\ coro_result.returned.dict[call.notifications[i]]
                      = StreamOutcome(responses[i])

\* C36 amended: when building the request of one notification of a batch
\* raises an Exception, nothing is posted for it, the batch still returns,
\* every sibling whose request was built is posted, and the result holds for
\* each token the outcome of the last notification that carries it:
\* InternalException for the one whose request was not built, the classified
\* outcome for a sibling.
C36_UnbuiltIsolated ==
    (BatchDone /\ NoneCancelled /\ SomeUnbuilt /\ starts = 1) =>
        /\ IsReturned(coro_result)
        /\ PostedForBuilt
        /\ \A i \in DOMAIN responses : LastOfToken(i) =>
               /\ call.notifications[i] \in DOMAIN coro_result.returned.dict
               /\ coro_result.returned.dict[call.notifications[i]]
                      = (IF Unbuilt(i) THEN PyS("InternalException")
                                      ELSE StreamOutcome(responses[i]))

C36_Witness ==
    /\ BatchDone /\ IsReturned(coro_result) /\ starts = 1
    /\ call.notifications = <<"t1", "t2">>
    /\ responses[1] = Exc("TypeError", "Object of type set is not JSON serializable")
    /\ responses[2] = Response(200, BodyRaises)
    /\ requests = <<"t2">>
    /\ coro_result.returned.dict["t1"] = PyS("InternalException")
    /\ coro_result.returned.dict["t2"] = PyS("Success")

\* The operation ended in the worker thread with nothing for run_in_thread to
\* capture: no result, and no Exception.
NothingCaptured ==
    \/ (IsReturned(coro_result) /\ coro_result.returned = PyNone)
    \/ (IsRaised(coro_result) /\ ~IsExceptionInstance(coro_result.raised))

\* C37: when the worker thread has ended within the join with neither a
\* result nor an error captured, the blocking call raises the bridge's
\* failure, "Failed to get result from async operation"; a result that is not
\* None, the empty dict of an empty batch included, is returned to the caller.
C37_NothingCapturedIsFailure ==
    (Blocking /\ Finished /\ JoinedInTime) =>
        /\ NothingCaptured => result = Raised(NoResult)
        /\ (IsReturned(coro_result) /\ coro_result.returned # PyNone)
               => result = coro_result

\* The loops the call has made.
LoopsOfCall == {LoopId(i) : i \in DOMAIN loops}

\* C38: every run of the operation by the bridge is on an event loop made
\* for it: each start of the operation in a blocking call makes a new loop,
\* in the thread of its strategy, and runs the operation on it; the operation
\* never runs on the caller's running loop nor on a loop its thread had bound
\* before, and no two strategies, and no two threads, of a call have a loop
\* in common.
C38_PrivateLoops ==
    /\ [](Blocking =>
             /\ coro # "none" => coro_loop \in LoopsOfCall
             /\ \A i \in DOMAIN loops :
                    /\ loops[i].thread = ThreadOf(loops[i].by)
                    /\ \A j \in DOMAIN loops : loops[i].by = loops[j].by => i = j)
    /\ [][(Blocking' /\ starts' # starts) =>
             /\ Len(loops') = Len(loops) + 1
             /\ SubSeq(loops', 1, Len(loops)) = [i \in DOMAIN loops |->
                                                   [loops[i] EXCEPT !.closed = loops'[i].closed]]
             /\ ~loops'[Len(loops')].closed
             /\ loops'[Len(loops')].by = pc'
             /\ coro_loop' = LoopId(Len(loops'))]_vars

\* A call inside a running loop whose operation ran in the worker thread, on
\* the thread's loop.
C38_Witness ==
    /\ Blocking /\ Finished /\ call.running_loop /\ ~is_celery_worker
    /\ IsReturned(result)
    /\ Len(loops) = 1
    /\ loops[1].thread = "worker"
    /\ coro_loop = LoopId(1)

\* C39: when the manual strategy is over, with a result or with an error,
\* the loop it made is closed and the calling thread has no current event
\* loop; the worker thread strategy leaves the current event loop of the
\* calling thread as it was.
C39_ManualLoopCleansUp ==
    /\ []((Finished /\ "manual_loop" \in Range(strategies)) =>
             /\ loops[LoopOf("manual_loop")].closed
             /\ binding = PyNone)
    /\ []((Finished /\ strategies = <<"separate_thread">>) => binding = BoundAtCall)
    /\ [][(pc = "separate_thread" /\ pc' = "separate_thread") => binding' = binding]_vars

\* The operation failed under the manual strategy.
C39_Witness ==
    /\ Finished /\ IsRaised(result)
    /\ strategies = <<"asyncio_run", "manual_loop">>
    /\ coro = "done" /\ IsRaised(coro_result)
    /\ loops[LoopOf("manual_loop")].closed
    /\ binding = PyNone

----------------------------------------------------------------------------
(* Properties of the cached token over time                                *)

\* self.__jwt_token
CachedPair == jwt_token[topic_token_slot(PyNone)]

\* C40: the cache of a TokenCredentials is None until a call of
\* get_authorization_header has begun; it is replaced by a whole pair, the
\* issue time and the token made with it; and whatever the interleaving of
\* the callers the issue time it holds never decreases.
C40_IssueTimeNeverDecreases ==
    /\ [](CredCalls = 0 => CachedPair = PyNone)
    /\ [][CachedPair' # CachedPair =>
             /\ CachedPair' # PyNone
             /\ CachedPair'.token.iat = CachedPair'.issue_date
             /\ CachedPair # PyNone => CachedPair'.issue_date >= CachedPair.issue_date]_vars

----------------------------------------------------------------------------
(* Properties of the streams of one event loop                             *)

\* The streams that are inside get_authorization_header.
InRefresh == {i \in DOMAIN tasks : tasks[i] = "running"}

\* The headers returned before the k-th that carry a token made for them.
FreshBefore(k) == {j \in 1..(k - 1) : headers[j].fresh}

\* The pair a header's call stored.
PairOf(h) == TokenPair(h.at, h.header.bearer)

\* C33: on one event loop the streams of a batch never interleave inside
\* get_authorization_header: at most one of them is inside it; a stream that
\* waits for its response, or has ended, got its header before it posted; and
\* a token is signed at most once per expiry: the first signed token found
\* the cache empty, and every later one found the pair of the one signed
\* before it, expired.
C33_NoSuspensionInRefresh ==
    /\ Cardinality(InRefresh) <= 1
    /\ Len(headers) = Len(requests)
    /\ Len(headers) = Cardinality({i \in DOMAIN tasks : tasks[i] \in {"inflight", "done"}})
    /\ \A k \in DOMAIN headers :
           IF headers[k].fresh
             THEN IF FreshBefore(k) = {}
                    THEN headers[k].observed = PyNone
                    ELSE LET last == CHOOSE j \in FreshBefore(k) :
                                         \A m \in FreshBefore(k) : m <= j
                         IN  /\ headers[k].observed = PairOf(headers[last])
                             /\ _is_expired_token(headers[k].checked,
                                                  headers[last].at, token_lifetime)
             ELSE /\ FreshBefore(k) # {}
                  /\ \E j \in FreshBefore(k) :
                         headers[k].header = headers[j].header

\* Both streams of a batch of two have ended, the second with the token the
\* first had signed.
C33_Witness ==
    /\ coro = "gather"
    /\ Len(tasks) = 2
    /\ \A i \in DOMAIN tasks : tasks[i] = "done"
    /\ Len(headers) = 2
    /\ headers[1].fresh
    /\ ~headers[2].fresh

====
